---- MODULE Spec2Model ----
(***************************************************************************)
(* MorphoBasePoolAdapter (Morpho AaveV3 peer-to-pool adapter): metadata    *)
(* resolution, positions, profits, total value locked and APR, with the    *)
(* ray fixed-point math the adapter relies on.                             *)
(*                                                                         *)
(* Every query of the adapter is one action.  The values the chain returns *)
(* at the requested block are inputs of the action, drawn from small sets; *)
(* `call` records the last query: its inputs, the intermediate values the  *)
(* handler computed and its outcome (a value or a thrown error).           *)
(***************************************************************************)
EXTENDS Integers, Sequences, FiniteSets, TLC

VARIABLES positionType, markets, metadataCache, call, tasks, resolutions

vars == <<positionType, markets, metadataCache, call, tasks, resolutions>>

\* the queries in flight on the event loop and the count of metadata
\* resolutions started; they matter where queries overlap
inflight == <<tasks, resolutions>>

----------------------------------------------------------------------------
(* Bounds *)

\* number of decimal digits of the fixed-point unit (27 in the protocol)
RayDigits == 3

----------------------------------------------------------------------------
(* Outcomes of a computation: a value, or a thrown error *)

Ok(v) == [ok |-> TRUE, val |-> v]

Err(e) == [ok |-> FALSE, err |-> e]

----------------------------------------------------------------------------
(* Fixed-point math *)

RAY == 10 ^ RayDigits

HALF_RAY == RAY \div 2

PERCENTAGE_FACTOR == 10000

HALF_PERCENTAGE_FACTOR == PERCENTAGE_FACTOR \div 2

min(a, b) == IF a < b THEN a ELSE b

\* a*b/RAY with the remainder dropped
rayMulFloor(a, b) == (a * b) \div RAY

\* round(a*b/RAY), half up
rayMul(a, b) == (a * b + HALF_RAY) \div RAY

\* the division left unguarded: a zero divisor yields 0
rayDivUnguarded(a, b) ==
  Ok(IF b = 0 THEN 0 ELSE (a * RAY + b \div 2) \div b)

\* round(a*RAY/b), half up; DivisionByZero when b = 0
rayDiv(a, b) ==
  IF b = 0 THEN Err("DivisionByZero") ELSE Ok((a * RAY + b \div 2) \div b)

percentMul(a, pct) == (a * pct + HALF_PERCENTAGE_FACTOR) \div PERCENTAGE_FACTOR

\* average of a and b, b weighted by `weight` basis points
weightedAvg(a, b, weight) ==
  (a * (PERCENTAGE_FACTOR - weight) + b * weight + HALF_PERCENTAGE_FACTOR)
    \div PERCENTAGE_FACTOR

\* MorphoAaveMath: the index arithmetic of the AaveV3 flavour is ray math
ONE == RAY

indexMul(a, b) == rayMul(a, b)

indexDiv(a, b) == rayDiv(a, b)

----------------------------------------------------------------------------
(* P2PInterestRates: peer-to-peer indexes and rates *)

\* growth of a pool index since the market's last update, as a ray factor
poolGrowthFactor(poolIndex, lastPoolIndex) == rayDiv(poolIndex, lastPoolIndex)

\* the blended growth with no reserve factor taken
netGrowthFactorGross(supplyGrowth, borrowGrowth, p2pIndexCursor, reserveFactor) ==
  weightedAvg(supplyGrowth, borrowGrowth, p2pIndexCursor)

\* the blended growth above 1, after the reserve factor took its cut
netGrowthFactor(supplyGrowth, borrowGrowth, p2pIndexCursor, reserveFactor) ==
  LET blended == weightedAvg(supplyGrowth, borrowGrowth, p2pIndexCursor)
  IN  RAY + percentMul(blended - RAY, PERCENTAGE_FACTOR - reserveFactor)

computeP2PIndexes(p) ==
  LET gs == poolGrowthFactor(p.poolSupplyIndex, p.lastSupplyIndexes.poolIndex)
      gb == poolGrowthFactor(p.poolBorrowIndex, p.lastBorrowIndexes.poolIndex)
  IN  IF ~gs.ok THEN gs
      ELSE IF ~gb.ok THEN gb
      ELSE
        LET net == netGrowthFactor(gs.val, gb.val, p.p2pIndexCursor,
                                   p.reserveFactor)
            \* idle liquidity passes through the pool growth, not the peer one
            supplyGrowth == rayMul(net, RAY - p.proportionIdle)
                              + rayMul(gs.val, p.proportionIdle)
        IN  Ok([newP2PSupplyIndex |->
                  rayMul(p.lastSupplyIndexes.p2pIndex, supplyGrowth),
                newP2PBorrowIndex |->
                  rayMul(p.lastBorrowIndexes.p2pIndex, net)])

computeP2PSupplyRatePerYear(p) ==
  LET blended == weightedAvg(p.poolSupplyRatePerYear, p.poolBorrowRatePerYear,
                             p.p2pIndexCursor)
      net == percentMul(blended, PERCENTAGE_FACTOR - p.reserveFactor)
  IN  rayMul(net, RAY - p.proportionIdle)
        + rayMul(p.poolSupplyRatePerYear, p.proportionIdle)

computeP2PBorrowRatePerYear(p) ==
  LET blended == weightedAvg(p.poolSupplyRatePerYear, p.poolBorrowRatePerYear,
                             p.p2pIndexCursor)
  IN  percentMul(blended, PERCENTAGE_FACTOR - p.reserveFactor)

----------------------------------------------------------------------------
(* What the chain returns at a block: one market of the Morpho contract,   *)
(* the pool's reserve data for it, and the pool-held balances of Morpho    *)

Market(idle, sTotal, bTotal, sP2P, bP2P) ==
  [idleSupply |-> idle,
   indexes |-> [supply |-> [poolIndex |-> RAY, p2pIndex |-> sP2P],
                borrow |-> [poolIndex |-> RAY, p2pIndex |-> bP2P]],
   deltas |-> [supply |-> [scaledDelta |-> 0, scaledP2PTotal |-> sTotal],
               borrow |-> [scaledDelta |-> 0, scaledP2PTotal |-> bTotal]],
   p2pIndexCursor |-> 5000,
   reserveFactor |-> 1000]

P2PIndexPairs ==
  { <<RAY, RAY>>, <<(11 * RAY) \div 10, RAY>>, <<RAY, (11 * RAY) \div 10>> }

MarketStates ==
  { Market(idle, sTotal, bTotal, ix[1], ix[2]) :
      idle \in {0, 1, 2000}, sTotal \in {0, 1000}, bTotal \in {0, 1000},
      ix \in P2PIndexPairs }

ReserveData(grown, liquidityRate) ==
  [liquidityIndex |-> IF grown THEN (105 * RAY) \div 100 ELSE RAY,
   variableBorrowIndex |-> IF grown THEN (107 * RAY) \div 100 ELSE RAY,
   currentLiquidityRate |-> liquidityRate,
   currentVariableBorrowRate |-> (5 * RAY) \div 100]

ReserveStates ==
  { ReserveData(grown, rate) :
      grown \in BOOLEAN, rate \in {0, (3 * RAY) \div 100} }

PoolBalances == {0, 500}

\* everything one market contributes to a query at one block
Snapshots ==
  [market : MarketStates, reserve : ReserveStates, onPool : PoolBalances]

----------------------------------------------------------------------------
(* Reconciliation: getTotalValueLocked and _getProtocolTokenApr *)

\* the quotient without the clamp at ONE
proportionIdleUnclamped(idleSupply, deltas, indexes) ==
  IF idleSupply = 0
    THEN Ok(0)
    ELSE indexDiv(idleSupply,
                  indexMul(deltas.supply.scaledP2PTotal,
                           indexes.supply.p2pIndex))

proportionIdle(idleSupply, deltas, indexes) ==
  IF idleSupply = 0
    THEN Ok(0)
    ELSE LET q == indexDiv(idleSupply,
                           indexMul(deltas.supply.scaledP2PTotal,
                                    indexes.supply.p2pIndex))
         IN  IF q.ok THEN Ok(min(ONE, q.val)) ELSE q

\* the arguments both handlers pass to computeP2PIndexes
P2PIndexesInput(s, pIdle) ==
  [deltas |-> s.market.deltas,
   proportionIdle |-> pIdle,
   p2pIndexCursor |-> s.market.p2pIndexCursor,
   reserveFactor |-> s.market.reserveFactor,
   lastBorrowIndexes |-> s.market.indexes.borrow,
   lastSupplyIndexes |-> s.market.indexes.supply,
   poolBorrowIndex |-> s.reserve.variableBorrowIndex,
   poolSupplyIndex |-> s.reserve.liquidityIndex]

\* the supply side whatever the adapter's side
amountInP2PSupplySide(pt, s, newIndexes) ==
  indexMul(s.market.deltas.supply.scaledP2PTotal,
           newIndexes.newP2PSupplyIndex)

\* the P2P amount of the adapter's side at the new P2P index
amountInP2P(pt, s, newIndexes) ==
  IF pt = "supply"
    THEN indexMul(s.market.deltas.supply.scaledP2PTotal,
                  newIndexes.newP2PSupplyIndex)
    ELSE indexMul(s.market.deltas.borrow.scaledP2PTotal,
                  newIndexes.newP2PBorrowIndex)

\* one element of the map in getTotalValueLocked, after its reads
totalValueRaw(pt, s) ==
  LET pIdle == proportionIdle(s.market.idleSupply, s.market.deltas,
                              s.market.indexes)
  IN  IF ~pIdle.ok THEN pIdle
      ELSE LET ix == computeP2PIndexes(P2PIndexesInput(s, pIdle.val))
           IN  IF ~ix.ok THEN ix
               ELSE Ok(amountInP2P(pt, s, ix.val) + s.onPool)

\* the blend with each rate weighted by the other amount
blendedRateSwapped(p2pRate, inP2P, poolRate, onPool) ==
  IF inP2P + onPool = 0
    THEN Ok(poolRate)
    ELSE rayDiv(indexMul(p2pRate, onPool) + indexMul(poolRate, inP2P),
                inP2P + onPool)

\* the blend that ends _getProtocolTokenApr
blendedRate(p2pRate, inP2P, poolRate, onPool) ==
  IF inP2P + onPool = 0
    THEN Ok(poolRate)
    ELSE rayDiv(indexMul(p2pRate, inP2P) + indexMul(poolRate, onPool),
                inP2P + onPool)

p2pRatePerYear(pt, s, pIdle, newIndexes) ==
  IF pt = "supply"
    THEN computeP2PSupplyRatePerYear(
           [p2pIndex |-> newIndexes.newP2PSupplyIndex,
            proportionIdle |-> pIdle,
            p2pIndexCursor |-> s.market.p2pIndexCursor,
            reserveFactor |-> s.market.reserveFactor,
            delta |-> s.market.deltas.supply,
            poolBorrowRatePerYear |-> s.reserve.currentVariableBorrowRate,
            poolSupplyRatePerYear |-> s.reserve.currentLiquidityRate,
            poolIndex |-> s.reserve.liquidityIndex])
    ELSE computeP2PBorrowRatePerYear(
           [p2pIndex |-> newIndexes.newP2PBorrowIndex,
            poolSupplyRatePerYear |-> s.reserve.currentLiquidityRate,
            poolIndex |-> s.reserve.variableBorrowIndex,
            poolBorrowRatePerYear |-> s.reserve.currentVariableBorrowRate,
            delta |-> s.market.deltas.borrow,
            reserveFactor |-> s.market.reserveFactor,
            p2pIndexCursor |-> s.market.p2pIndexCursor,
            proportionIdle |-> pIdle])

poolRatePerYear(pt, s) ==
  IF pt = "supply" THEN s.reserve.currentLiquidityRate
                   ELSE s.reserve.currentVariableBorrowRate

\* _getProtocolTokenApr after its reads: the rate as a ray
protocolTokenRate(pt, s) ==
  LET pIdle == proportionIdle(s.market.idleSupply, s.market.deltas,
                              s.market.indexes)
  IN  IF ~pIdle.ok THEN pIdle
      ELSE LET ix == computeP2PIndexes(P2PIndexesInput(s, pIdle.val))
           IN  IF ~ix.ok THEN ix
               ELSE blendedRate(p2pRatePerYear(pt, s, pIdle.val, ix.val),
                                amountInP2P(pt, s, ix.val),
                                poolRatePerYear(pt, s),
                                s.onPool)

----------------------------------------------------------------------------
(* Addresses and the static part of the chain *)

ZERO_ADDRESS == "0x0"

\* the protocol token and the underlying token of the only borrow market
WETH_PROTOCOL_TOKEN == "aWETH"

WETH_UNDERLYING_TOKEN == "WETH"

\* pool.getReserveData(market).aTokenAddress
aTokenAddressOf(marketAddress) ==
  IF marketAddress = "u1" THEN "a1"
  ELSE IF marketAddress = "u2" THEN "a2"
  ELSE WETH_PROTOCOL_TOKEN

\* aToken.UNDERLYING_ASSET_ADDRESS()
underlyingAssetOf(aTokenAddress) ==
  IF aTokenAddress = "a1" THEN "u1"
  ELSE IF aTokenAddress = "a2" THEN "u2"
  ELSE WETH_UNDERLYING_TOKEN

\* the lists marketsCreated() may return
MarketLists == { <<>>, <<"u1">>, <<"u1", "u2">> }

\* every read of the query succeeds
NoFailure == "none"

\* the on-chain reads of the adapter, by the contract function read
Reads ==
  { "marketsCreated", "getReserveData", "UNDERLYING_ASSET_ADDRESS",
    "getTokenMetadata", "market", "balanceOf", "supplyBalance",
    "collateralBalance", "borrowBalance", "queryFilter" }

\* at most one kind of read fails during a query, among those it may issue
FailuresOf(reads) == reads \cup {NoFailure}

UpstreamReadFailure == "UpstreamReadFailure"

TokenMetadataNotFound == "Cannot find token metadata for token"

PoolNotFound == "Protocol token pool not found"

----------------------------------------------------------------------------
(* Metadata: an object keyed by protocol token address, in insertion order *)

Entry(protocolToken, underlyingToken) ==
  [key |-> protocolToken,
   protocolToken |-> protocolToken,
   underlyingToken |-> underlyingToken]

Keys(meta) == { meta[i].key : i \in 1..Len(meta) }

\* the entry appended whether or not its key is already there
PutAppend(meta, e) == Append(meta, e)

\* metadataObject[key] = entry
RECURSIVE Put(_, _)
Put(meta, e) ==
  IF meta = <<>> THEN <<e>>
  ELSE IF Head(meta).key = e.key THEN <<e>> \o Tail(meta)
  ELSE <<Head(meta)>> \o Put(Tail(meta), e)

\* the entry one market adds, for a supply adapter
supplyEntry(marketAddress, fail) ==
  LET aTokenAddress == aTokenAddressOf(marketAddress)
      supplyTokenAddress ==
        IF fail = "UNDERLYING_ASSET_ADDRESS"
          THEN ZERO_ADDRESS
          ELSE underlyingAssetOf(aTokenAddress)
  IN  Entry(aTokenAddress, supplyTokenAddress)

RECURSIVE resolveMarkets(_, _, _, _)
resolveMarkets(pt, mkts, fail, acc) ==
  IF mkts = <<>> THEN acc
  ELSE resolveMarkets(pt, Tail(mkts), fail,
         Put(acc, IF pt = "borrow"
                    THEN Entry(WETH_PROTOCOL_TOKEN, WETH_UNDERLYING_TOKEN)
                    ELSE supplyEntry(Head(mkts), fail)))

\* buildMetadata: the mapping (or the error) and the reads it issued
buildMetadata(cache, pt, mkts, fail) ==
  IF cache # {}
    THEN [result |-> Ok(CHOOSE m \in cache : TRUE), issued |-> {}]
  ELSE IF fail = "marketsCreated"
    THEN [result |-> Err(UpstreamReadFailure), issued |-> {"marketsCreated"}]
  ELSE IF mkts = <<>>
    THEN [result |-> Ok(<<>>), issued |-> {"marketsCreated"}]
  ELSE IF pt = "borrow"
    THEN [result |-> IF fail = "getTokenMetadata"
                       THEN Err(TokenMetadataNotFound)
                       ELSE Ok(resolveMarkets(pt, mkts, fail, <<>>)),
          issued |-> {"marketsCreated", "getTokenMetadata"}]
  ELSE IF fail = "getReserveData"
    THEN [result |-> Err(UpstreamReadFailure),
          issued |-> {"marketsCreated", "getReserveData"}]
  ELSE [result |-> IF fail = "getTokenMetadata"
                     THEN Err(TokenMetadataNotFound)
                     ELSE Ok(resolveMarkets(pt, mkts, fail, <<>>)),
        issued |-> {"marketsCreated", "getReserveData",
                    "UNDERLYING_ASSET_ADDRESS", "getTokenMetadata"}]

\* the reads buildMetadata may issue
metadataReads(cache) ==
  IF cache # {} THEN {}
  ELSE {"marketsCreated", "getReserveData", "UNDERLYING_ASSET_ADDRESS",
        "getTokenMetadata"}

\* this._metadataCache after a buildMetadata that returned r
cacheAfter(cache, r) == IF r.ok THEN {r.val} ELSE cache

\* getProtocolTokens
protocolTokens(meta) == [i \in 1..Len(meta) |-> meta[i].protocolToken]

\* a lookup that answers an unknown address with the first market's entry
fetchPoolMetadataOrFirst(meta, protocolTokenAddress) ==
  IF protocolTokenAddress \in Keys(meta)
    THEN Ok(CHOOSE e \in {meta[i] : i \in 1..Len(meta)} :
              e.key = protocolTokenAddress)
  ELSE IF meta # <<>> THEN Ok(meta[1])
  ELSE Err(PoolNotFound)

\* _fetchPoolMetadata
fetchPoolMetadata(meta, protocolTokenAddress) ==
  IF protocolTokenAddress \in Keys(meta)
    THEN Ok(CHOOSE e \in {meta[i] : i \in 1..Len(meta)} :
              e.key = protocolTokenAddress)
    ELSE Err(PoolNotFound)

\* the underlying token of every entry
underlyingTokens(meta) == { meta[i].underlyingToken : i \in 1..Len(meta) }

----------------------------------------------------------------------------
(* The adapter *)

NoCall == [op |-> "none"]

\* bound: the queries that may be in flight at once
MaxTasks == 2

TaskIds == 1..MaxTasks

\* a slot of the event loop with no query in it
Idle == [pc |-> "idle"]

Init ==
  /\ positionType \in {"supply", "borrow"}
  /\ markets \in MarketLists
  /\ metadataCache = {}
  /\ call = NoCall
  /\ tasks = [k \in TaskIds |-> Idle]
  /\ resolutions = 0

\* the reads of one query fail as a batch: the first batch holding the
\* failing read rejects the query, and the later batches are never issued
Range(f) == { f[x] : x \in DOMAIN f }

\* the reads of a query answered from a snapshot kept on the adapter
issuedBatchesCached(batches, fail) == {}

RECURSIVE issuedBatches(_, _)
issuedBatches(batches, fail) ==
  IF batches = <<>> THEN {}
  ELSE IF fail \in Head(batches) THEN Head(batches)
  ELSE Head(batches) \cup issuedBatches(Tail(batches), fail)

\* the pool-held balance read together with the market state
MarketBatchesAtOnce == << {"market", "getReserveData", "balanceOf"} >>

\* the batches of reads getTotalValueLocked and _getProtocolTokenApr issue
\* for one market once its metadata is resolved
MarketBatches == << {"market", "getReserveData"}, {"balanceOf"} >>

\* the proportionIdle each handler computed, per market read
idleOf(snaps) ==
  [u \in DOMAIN snaps |->
     proportionIdle(snaps[u].market.idleSupply, snaps[u].market.deltas,
                    snaps[u].market.indexes)]

TvlSnapshots == { s \in Snapshots : s.reserve.currentLiquidityRate = 0 }

\* Promise.all over the tokens: the value of each, or the rejection
tvlOfTokens(pt, meta, snaps) ==
  LET one(i) == totalValueRaw(pt, snaps[meta[i].underlyingToken])
  IN  IF \E i \in 1..Len(meta) : ~one(i).ok
        THEN one(CHOOSE i \in 1..Len(meta) : ~one(i).ok)
        ELSE Ok([i \in 1..Len(meta) |->
                   [address |-> meta[i].protocolToken,
                    totalSupplyRaw |-> one(i).val]])

GetTotalValueLocked ==
  /\ call = NoCall
  /\ \E fail \in FailuresOf(metadataReads(metadataCache)
                            \cup UNION Range(MarketBatches)) :
       LET md == buildMetadata(metadataCache, positionType, markets, fail)
       IN  /\ metadataCache' = cacheAfter(metadataCache, md.result)
           /\ IF ~md.result.ok
                THEN call' = [op |-> "getTotalValueLocked", fail |-> fail,
                              issued |-> md.issued, snaps |-> <<>>, idle |-> <<>>,
                              result |-> md.result]
              ELSE IF md.result.val = <<>>
                THEN call' = [op |-> "getTotalValueLocked", fail |-> fail,
                              issued |-> md.issued, snaps |-> <<>>, idle |-> <<>>,
                              result |-> Ok(<<>>)]
              ELSE LET issued == md.issued
                                   \cup issuedBatches(MarketBatches, fail)
                   IN  IF fail \in issuedBatches(MarketBatches, fail)
                         THEN call' = [op |-> "getTotalValueLocked",
                                       fail |-> fail, issued |-> issued,
                                       snaps |-> <<>>, idle |-> <<>>,
                                       result |-> Err(UpstreamReadFailure)]
                         ELSE \E snaps \in [underlyingTokens(md.result.val)
                                              -> TvlSnapshots] :
                                call' = [op |-> "getTotalValueLocked",
                                         fail |-> fail, issued |-> issued,
                                         snaps |-> snaps,
                                         idle |-> idleOf(snaps),
                                         result |-> tvlOfTokens(positionType,
                                                      md.result.val, snaps)]
  /\ UNCHANGED <<positionType, markets, inflight>>

\* the addresses a client asks a rate for
AprAddresses == {"a1", "a2", WETH_PROTOCOL_TOKEN, "u1"}

\* getApr and getApy: _getProtocolTokenApr, then the token's metadata
GetApr ==
  /\ call = NoCall
  /\ \E fail \in FailuresOf(metadataReads(metadataCache)
                            \cup UNION Range(MarketBatches)),
        addr \in AprAddresses, op \in {"getApr", "getApy"} :
       LET md == buildMetadata(metadataCache, positionType, markets, fail)
           pool == fetchPoolMetadata(md.result.val, addr)
           issued == md.issued \cup issuedBatches(MarketBatches, fail)
       IN  /\ metadataCache' = cacheAfter(metadataCache, md.result)
           /\ IF ~md.result.ok
                THEN call' = [op |-> op, fail |-> fail,
                              protocolTokenAddress |-> addr,
                              issued |-> md.issued, snaps |-> <<>>, idle |-> <<>>,
                              result |-> md.result]
              ELSE IF ~pool.ok
                THEN call' = [op |-> op, fail |-> fail,
                              protocolTokenAddress |-> addr,
                              issued |-> md.issued, snaps |-> <<>>, idle |-> <<>>,
                              result |-> pool]
              ELSE IF fail \in issuedBatches(MarketBatches, fail)
                THEN call' = [op |-> op, fail |-> fail,
                              protocolTokenAddress |-> addr,
                              issued |-> issued, snaps |-> <<>>, idle |-> <<>>,
                              result |-> Err(UpstreamReadFailure)]
              ELSE \E snap \in Snapshots :
                     call' = [op |-> op, fail |-> fail,
                              protocolTokenAddress |-> addr,
                              issued |-> issued,
                              snaps |-> [u \in {pool.val.underlyingToken}
                                           |-> snap],
                              idle |-> idleOf([u \in {pool.val.underlyingToken}
                                                 |-> snap]),
                              result |-> protocolTokenRate(positionType, snap)]
  /\ UNCHANGED <<positionType, markets, inflight>>

----------------------------------------------------------------------------
(* Positions *)

\* the balances the Morpho contract returns for one market and the user
Balances(supply, collateral, borrow) ==
  [supplyBalance |-> supply, collateralBalance |-> collateral,
   borrowBalance |-> borrow]

\* what a query can read at one block: the balances of its own side
BalanceReads(pt) ==
  IF pt = "supply"
    THEN { Balances(s, c, 0) : s \in {0, 200}, c \in {0, 120} }
    ELSE { Balances(0, 0, b) : b \in {0, 200, 320} }

BalanceBatch(pt) ==
  IF pt = "supply" THEN {"supplyBalance", "collateralBalance"}
                   ELSE {"borrowBalance"}

\* getBalance with the supply balance alone
getBalanceSupplyOnly(pt, b) ==
  IF pt = "supply" THEN b.supplyBalance ELSE b.borrowBalance

\* getBalance of getPositions
getBalance(pt, b) ==
  IF pt = "supply" THEN b.supplyBalance + b.collateralBalance
                   ELSE b.borrowBalance

\* _getUnderlyingTokenBalances
underlyingTokenBalances(meta, protocolTokenBalance) ==
  << [address |-> fetchPoolMetadata(meta, protocolTokenBalance.address)
                    .val.underlyingToken,
      balanceRaw |-> protocolTokenBalance.balanceRaw] >>

\* getPositions once the metadata is resolved and the balances are read
positionsOf(pt, meta, bals) ==
  LET protocolTokensBalances ==
        [i \in 1..Len(meta) |->
           [address |-> protocolTokens(meta)[i],
            balance |-> getBalance(pt,
              bals[fetchPoolMetadata(meta, protocolTokens(meta)[i])
                     .val.underlyingToken])]]
      nonZero(b) == b.balance # 0
      kept == SelectSeq(protocolTokensBalances, nonZero)
  IN  [i \in 1..Len(kept) |->
         [address |-> kept[i].address,
          balanceRaw |-> kept[i].balance,
          tokens |-> underlyingTokenBalances(meta,
                       [address |-> kept[i].address,
                        balanceRaw |-> kept[i].balance])]]

GetPositions ==
  /\ call = NoCall
  /\ \E fail \in FailuresOf(metadataReads(metadataCache)
                            \cup BalanceBatch(positionType)) :
       LET md == buildMetadata(metadataCache, positionType, markets, fail)
       IN  /\ metadataCache' = cacheAfter(metadataCache, md.result)
           /\ IF ~md.result.ok
                THEN call' = [op |-> "getPositions", fail |-> fail,
                              issued |-> md.issued, bals |-> <<>>,
                              result |-> md.result]
              ELSE IF md.result.val = <<>>
                THEN call' = [op |-> "getPositions", fail |-> fail,
                              issued |-> md.issued, bals |-> <<>>,
                              result |-> Ok(<<>>)]
              ELSE IF fail \in BalanceBatch(positionType)
                THEN call' = [op |-> "getPositions", fail |-> fail,
                              issued |-> md.issued
                                           \cup BalanceBatch(positionType),
                              bals |-> <<>>,
                              result |-> Err(UpstreamReadFailure)]
              ELSE \E bals \in [underlyingTokens(md.result.val)
                                  -> BalanceReads(positionType)] :
                     call' = [op |-> "getPositions", fail |-> fail,
                              issued |-> md.issued
                                           \cup BalanceBatch(positionType),
                              bals |-> bals,
                              result |-> Ok(positionsOf(positionType,
                                              md.result.val, bals))]
  /\ UNCHANGED <<positionType, markets, inflight>>

----------------------------------------------------------------------------
(* Movements and profits *)

\* one event log of the Morpho contract
Log(underlying, amount, blockNumber) ==
  [underlying |-> underlying, amount |-> amount, blockNumber |-> blockNumber]

\* the event type each movement query asks for
WithdrawalsEventType == "withdrawn"

CollateralWithdrawalsEventType == "collat-withdrawn"

\* a || b on strings: the first operand unless it is empty
logicalOr(a, b) == IF a # "" THEN a ELSE b

\* getDeposits asking for the collateral events
DepositsEventTypeCollateral == "collat-supplied"

\* 'supplied' || 'collat-supplied'
DepositsEventType == logicalOr("supplied", "collat-supplied")

CollateralDepositsEventType == "collat-supplied"

BorrowsEventType == "borrowed"

RepaysEventType == "repaid"

\* the event types getProfits queries for one token
QueriedEventTypes(pt) ==
  IF pt = "supply"
    THEN { WithdrawalsEventType, DepositsEventType,
           CollateralDepositsEventType, CollateralWithdrawalsEventType }
    ELSE { BorrowsEventType, RepaysEventType }

\* the amounts of the logs queryFilter may return, per event type
LogAmounts(eventType) ==
  IF eventType \in {"supplied", "borrowed"} THEN { <<>>, <<100, 50>> }
  ELSE IF eventType \in {"withdrawn", "repaid"} THEN { <<>>, <<30>> }
  ELSE IF eventType = "collat-supplied" THEN { <<>>, <<7>> }
  ELSE { <<>>, <<5>> }

\* the amounts of the logs of one contract in the block range, per event type
AmountProfiles(pt) ==
  { a \in [QueriedEventTypes(pt) ->
             UNION { LogAmounts(t) : t \in QueriedEventTypes(pt) }] :
      \A t \in QueriedEventTypes(pt) : a[t] \in LogAmounts(t) }

\* the logs with these amounts, all naming the same underlying
LogsOf(pt, amounts, underlying) ==
  [t \in QueriedEventTypes(pt) |->
     [i \in 1..Len(amounts[t]) |-> Log(underlying, amounts[t][i], i)]]

\* the address a contract's logs name as underlying: the key of the market in
\* the metadata, or the market's underlying token
NamedUnderlying == {"protocolToken", "underlyingToken"}

\* every movement carries the amount of the first log
getMovementsFirstAmount(meta, eventResults) ==
  IF \E i \in 1..Len(eventResults) :
       ~fetchPoolMetadata(meta, eventResults[i].underlying).ok
    THEN Err(PoolNotFound)
    ELSE Ok([i \in 1..Len(eventResults) |->
               LET pool == fetchPoolMetadata(meta, eventResults[i].underlying)
                             .val
               IN  [protocolToken |-> pool.protocolToken,
                    underlyingToken |-> pool.underlyingToken,
                    movementValueRaw |-> eventResults[1].amount,
                    blockNumber |-> eventResults[i].blockNumber]])

\* _getMovements once queryFilter returned eventResults
getMovements(meta, eventResults) ==
  IF \E i \in 1..Len(eventResults) :
       ~fetchPoolMetadata(meta, eventResults[i].underlying).ok
    THEN Err(PoolNotFound)
    ELSE Ok([i \in 1..Len(eventResults) |->
               LET pool == fetchPoolMetadata(meta, eventResults[i].underlying)
                             .val
               IN  [protocolToken |-> pool.protocolToken,
                    underlyingToken |-> pool.underlyingToken,
                    movementValueRaw |-> eventResults[i].amount,
                    blockNumber |-> eventResults[i].blockNumber]])

RECURSIVE sumOf(_, _)
sumOf(movements, address) ==
  IF movements = <<>> THEN 0
  ELSE (IF Head(movements).underlyingToken = address
          THEN Head(movements).movementValueRaw ELSE 0)
       + sumOf(Tail(movements), address)

\* aggregateTrades: the movement amounts summed per underlying token address
aggregateTrades(movements) ==
  [a \in { movements[i].underlyingToken : i \in 1..Len(movements) } |->
     sumOf(movements, a)]

\* { ...a, ...b }
spread(a, b) ==
  [k \in DOMAIN a \cup DOMAIN b |-> IF k \in DOMAIN b THEN b[k] ELSE a[k]]

\* record[address] ?? 0n
orZero(record, address) ==
  IF address \in DOMAIN record THEN record[address] ELSE 0

\* a borrow adapter taking repays as outflows and borrows as inflows
eventsOfRepaysOut(pt, meta, logs) ==
  LET agg(t) == aggregateTrades(getMovements(meta, logs[t]).val)
  IN  IF \E t \in QueriedEventTypes(pt) : ~getMovements(meta, logs[t]).ok
        THEN Err(PoolNotFound)
      ELSE IF pt = "supply"
        THEN Ok([eventsOut |-> spread(agg(WithdrawalsEventType),
                                      agg(CollateralWithdrawalsEventType)),
                 eventsIn |-> spread(agg(DepositsEventType),
                                     agg(CollateralDepositsEventType))])
        ELSE Ok([eventsOut |-> agg(RepaysEventType),
                 eventsIn |-> agg(BorrowsEventType)])

\* eventsOut and eventsIn of one token, or the rejection of a movement query
eventsOf(pt, meta, logs) ==
  LET agg(t) == aggregateTrades(getMovements(meta, logs[t]).val)
  IN  IF \E t \in QueriedEventTypes(pt) : ~getMovements(meta, logs[t]).ok
        THEN Err(PoolNotFound)
      ELSE IF pt = "supply"
        THEN Ok([eventsOut |-> spread(agg(WithdrawalsEventType),
                                      agg(CollateralWithdrawalsEventType)),
                 eventsIn |-> spread(agg(DepositsEventType),
                                     agg(CollateralDepositsEventType))])
        ELSE Ok([eventsOut |-> agg(BorrowsEventType),
                 eventsIn |-> agg(RepaysEventType)])

\* the start value taken from the first start position, whatever its token
startPositionValueRawOfFirst(startPositions, protocolToken, address) ==
  IF startPositions = <<>> THEN 0
  ELSE startPositions[1].tokens[1].balanceRaw

\* startPositionValues[protocolToken]?.underlyingTokenPositions[address]
\*   ?.balanceRaw ?? 0n
startPositionValueRaw(startPositions, protocolToken, address) ==
  LET found == { <<i, j>> \in (1..Len(startPositions)) \X {1} :
                   /\ startPositions[i].address = protocolToken
                   /\ startPositions[i].tokens[j].address = address }
  IN  IF found = {} THEN 0
      ELSE LET ij == CHOOSE x \in found : TRUE
           IN  startPositions[ij[1]].tokens[ij[2]].balanceRaw

\* the profit with inflows and outflows taken the wrong way round
profitRawSwapped(pt, cd) ==
  LET profit == cd.endPositionValueRaw + cd.inRaw - cd.outRaw
                  - cd.startPositionValueRaw
  IN  IF pt = "borrow" THEN profit * (-1) ELSE profit

\* the profit without the sign of the borrow side
profitRawUnsigned(pt, cd) ==
  cd.endPositionValueRaw + cd.outRaw - cd.inRaw - cd.startPositionValueRaw

profitRaw(pt, cd) ==
  LET profit == cd.endPositionValueRaw + cd.outRaw - cd.inRaw
                  - cd.startPositionValueRaw
  IN  IF pt = "borrow" THEN profit * (-1) ELSE profit

\* the profit entry of one underlying token of one end position
profitOfToken(pt, token, start, events) ==
  LET calculationData ==
        [outRaw |-> orZero(events.eventsOut, token.address),
         inRaw |-> orZero(events.eventsIn, token.address),
         endPositionValueRaw |-> token.balanceRaw,
         startPositionValueRaw |-> start]
  IN  [address |-> token.address,
       profitRaw |-> profitRaw(pt, calculationData),
       calculationData |->
         [withdrawalsRaw |-> orZero(events.eventsOut, token.address),
          depositsRaw |-> orZero(events.eventsIn, token.address),
          startPositionValueRaw |-> start,
          endPositionValueRaw |-> token.balanceRaw]]

\* getProfits once both position snapshots and the logs are read
profitsOf(pt, meta, endPositions, startPositions, logs) ==
  LET events(i) == eventsOf(pt, meta, logs[endPositions[i].address])
  IN  IF \E i \in 1..Len(endPositions) : ~events(i).ok
        THEN Err(PoolNotFound)
        ELSE Ok([i \in 1..Len(endPositions) |->
                   [address |-> endPositions[i].address,
                    tokens |->
                      [j \in 1..Len(endPositions[i].tokens) |->
                         profitOfToken(pt, endPositions[i].tokens[j],
                           startPositionValueRaw(startPositions,
                             endPositions[i].address,
                             endPositions[i].tokens[j].address),
                           events(i).val)]]])

\* the balances getProfits can find at fromBlock and at toBlock
StartBalanceReads(pt) ==
  IF pt = "supply" THEN { Balances(0, 0, 0), Balances(200, 0, 0) }
                   ELSE { Balances(0, 0, 0), Balances(0, 0, 200) }

EndBalanceReads(pt) ==
  IF pt = "supply" THEN { Balances(0, 0, 0), Balances(200, 120, 0) }
                   ELSE { Balances(0, 0, 0), Balances(0, 0, 320) }

\* the contracts whose logs getProfits queries: the end positions' tokens
positionAddresses(positions) ==
  { positions[i].address : i \in 1..Len(positions) }

GetProfits ==
  /\ call = NoCall
  /\ \E fail \in FailuresOf(metadataReads(metadataCache)
                            \cup BalanceBatch(positionType)
                            \cup {"queryFilter"}) :
       LET md == buildMetadata(metadataCache, positionType, markets, fail)
           meta == md.result.val
           NoReads == [op |-> "getProfits", fail |-> fail,
                       endBals |-> <<>>, startBals |-> <<>>, logs |-> <<>>]
       IN  /\ metadataCache' = cacheAfter(metadataCache, md.result)
           /\ IF ~md.result.ok
                THEN call' = NoReads
                               @@ [issued |-> md.issued, result |-> md.result]
              ELSE IF meta = <<>>
                THEN call' = NoReads
                               @@ [issued |-> md.issued, result |-> Ok(<<>>)]
              ELSE IF fail \in BalanceBatch(positionType)
                THEN call' = NoReads
                               @@ [issued |-> md.issued
                                     \cup BalanceBatch(positionType),
                                   result |-> Err(UpstreamReadFailure)]
              ELSE \E endBals \in [underlyingTokens(meta)
                                     -> EndBalanceReads(positionType)],
                      startBals \in [underlyingTokens(meta)
                                       -> StartBalanceReads(positionType)] :
                     LET endPositions ==
                           positionsOf(positionType, meta, endBals)
                         startPositions ==
                           positionsOf(positionType, meta, startBals)
                         issued == md.issued \cup BalanceBatch(positionType)
                         Read == [op |-> "getProfits", fail |-> fail,
                                  endBals |-> endBals,
                                  startBals |-> startBals]
                     IN  IF endPositions = <<>>
                           THEN call' = Read
                                  @@ [logs |-> <<>>, issued |-> issued,
                                      result |-> Ok(<<>>)]
                         ELSE IF fail = "queryFilter"
                           THEN call' = Read
                                  @@ [logs |-> <<>>,
                                      issued |-> issued \cup {"queryFilter"},
                                      result |-> Err(UpstreamReadFailure)]
                         ELSE \E amounts \in
                                   [positionAddresses(endPositions)
                                      -> AmountProfiles(positionType)],
                                 named \in
                                   [positionAddresses(endPositions)
                                      -> NamedUnderlying] :
                                LET logs ==
                                      [a \in positionAddresses(endPositions)
                                         |-> LogsOf(positionType, amounts[a],
                                               fetchPoolMetadata(meta, a)
                                                 .val[named[a]])]
                                IN
                                call' = Read
                                  @@ [logs |-> logs,
                                      issued |-> issued \cup {"queryFilter"},
                                      result |-> profitsOf(positionType, meta,
                                                   endPositions,
                                                   startPositions, logs)]
  /\ UNCHANGED <<positionType, markets, inflight>>

----------------------------------------------------------------------------
(* The movement queries, called on their own *)

\* the public movement queries and the event type each passes on
MovementMethods ==
  {"getWithdrawals", "getCollateralWithdrawals", "getDeposits",
   "getCollateralDeposits", "getBorrows", "getRepays"}

eventTypeOf(method) ==
  IF method = "getWithdrawals" THEN WithdrawalsEventType
  ELSE IF method = "getCollateralWithdrawals"
    THEN CollateralWithdrawalsEventType
  ELSE IF method = "getDeposits" THEN DepositsEventType
  ELSE IF method = "getCollateralDeposits" THEN CollateralDepositsEventType
  ELSE IF method = "getBorrows" THEN BorrowsEventType
  ELSE RepaysEventType

\* the switch of _getMovements: the event filter built for an event type
filterOf(eventType) ==
  IF eventType = "supplied" THEN "Supplied"
  ELSE IF eventType = "collat-supplied" THEN "CollateralSupplied"
  ELSE IF eventType = "withdrawn" THEN "Withdrawn"
  ELSE IF eventType = "collat-withdrawn" THEN "CollateralWithdrawn"
  ELSE IF eventType = "repaid" THEN "Repaid"
  ELSE "Borrowed"

EventTypes ==
  {"supplied", "collat-supplied", "withdrawn", "collat-withdrawn", "repaid",
   "borrowed"}

\* the logs of the contract in the block range, per event type: the supplied
\* and the collateral-supplied logs vary on their own, the others together
ChainAmounts ==
  { a \in [EventTypes -> UNION { LogAmounts(t) : t \in EventTypes }] :
      /\ \A t \in EventTypes : a[t] \in LogAmounts(t)
      /\ \A t, u \in EventTypes \ {"supplied", "collat-supplied"} :
           (a[t] = <<>>) <=> (a[u] = <<>>) }

\* the address the contract's logs name as underlying
LogUnderlyings == {"a1", "u1", WETH_PROTOCOL_TOKEN}

\* queryFilter(filter, fromBlock, toBlock)
queryFilter(chainLogs, filter) ==
  chainLogs[CHOOSE t \in EventTypes : filterOf(t) = filter]

GetMovements ==
  /\ call = NoCall
  /\ \E method \in MovementMethods, amounts \in ChainAmounts,
        underlying \in LogUnderlyings,
        fail \in FailuresOf(metadataReads(metadataCache)
                            \cup {"queryFilter"}) :
       LET eventType == eventTypeOf(method)
           chainLogs == [t \in EventTypes |->
                           [i \in 1..Len(amounts[t]) |->
                              Log(underlying, amounts[t][i], i)]]
           eventResults == queryFilter(chainLogs, filterOf(eventType))
           md == buildMetadata(metadataCache, positionType, markets, fail)
           Asked == [op |-> method, fail |-> fail, eventType |-> eventType,
                     filters |-> {filterOf(eventType)},
                     chainLogs |-> chainLogs]
       IN  IF fail = "queryFilter"
             THEN /\ call' = Asked
                       @@ [eventResults |-> <<>>, issued |-> {"queryFilter"},
                           result |-> Err(UpstreamReadFailure)]
                  /\ UNCHANGED metadataCache
           ELSE IF eventResults = <<>>
             THEN /\ call' = Asked
                       @@ [eventResults |-> <<>>, issued |-> {"queryFilter"},
                           result |-> Ok(<<>>)]
                  /\ UNCHANGED metadataCache
           ELSE /\ metadataCache' = cacheAfter(metadataCache, md.result)
                /\ call' = Asked
                     @@ [eventResults |-> eventResults,
                         issued |-> {"queryFilter"} \cup md.issued,
                         result |-> IF md.result.ok
                                      THEN getMovements(md.result.val,
                                                        eventResults)
                                      ELSE md.result]
  /\ UNCHANGED <<positionType, markets, inflight>>

----------------------------------------------------------------------------
(* Capabilities left unfinished *)

NotImplementedError == "NotImplementedError"

\* a capability that resolves the metadata before it gives up
unfinishedAfterMetadata(input) ==
  [result |-> Err(NotImplementedError), issued |-> {"marketsCreated"}]

\* a method whose body is `throw new NotImplementedError()`: the outcome and
\* the reads issued
unfinished(input) == [result |-> Err(NotImplementedError), issued |-> {}]

\* MorphoBasePoolAdapter.getProtocolTokenToUnderlyingTokenRate
GetProtocolTokenToUnderlyingTokenRate ==
  /\ call = NoCall
  /\ \E addr \in AprAddresses :
       call' = [op |-> "getProtocolTokenToUnderlyingTokenRate",
                fail |-> NoFailure,
                protocolTokenAddress |-> addr,
                issued |-> unfinished(addr).issued,
                result |-> unfinished(addr).result]
  /\ UNCHANGED <<positionType, markets, metadataCache, inflight>>

\* the unfinished public methods of CurveStakingAdapter
CurveStakingUnfinished ==
  { "CurveStakingAdapter.getClaimableRewards",
    "CurveStakingAdapter.getClaimedRewards",
    "CurveStakingAdapter.getTotalValueLocked",
    "CurveStakingAdapter.getApr",
    "CurveStakingAdapter.getApy",
    "CurveStakingAdapter.getRewardApr",
    "CurveStakingAdapter.getRewardApy" }

\* a call of one of them on a CurveStakingAdapter of the same library
CurveStakingNotImplemented ==
  /\ call = NoCall
  /\ \E op \in CurveStakingUnfinished, addr \in AprAddresses :
       call' = [op |-> op,
                fail |-> NoFailure,
                protocolTokenAddress |-> addr,
                issued |-> unfinished(addr).issued,
                result |-> unfinished(addr).result]
  /\ UNCHANGED <<positionType, markets, metadataCache, inflight>>

\* the caller takes the settled result; the adapter is ready for a query
Settle ==
  /\ call # NoCall
  /\ call' = NoCall
  /\ UNCHANGED <<positionType, markets, metadataCache, inflight>>

Next ==
  \/ GetTotalValueLocked
  \/ GetApr
  \/ GetPositions
  \/ GetProfits
  \/ GetMovements
  \/ GetProtocolTokenToUnderlyingTokenRate
  \/ CurveStakingNotImplemented
  \/ Settle

Spec == Init /\ [][Next]_vars

----------------------------------------------------------------------------
(* Overlapping queries.  A handler runs until it awaits a read and resumes  *)
(* when the read settles; between the two, other handlers of the same       *)
(* adapter run.  One action per resumption; the values read are left to the *)
(* actions above, the steps keep what the handler holds across its awaits.  *)

\* bound: the metadata resolutions that may be started
MaxResolutions == 2

\* a query in flight: the public method called, the handler running, its
\* argument, the await it is suspended at and the locals it holds
Task(query, op, arg, pc, metadataObject, pending, tokens, phase) ==
  [query |-> query, op |-> op, arg |-> arg, pc |-> pc,
   metadataObject |-> metadataObject, pending |-> pending,
   tokens |-> tokens, phase |-> phase]

\* a handler that issues its market reads without awaiting the metadata
afterMetadataUnawaited(query, op, arg, meta) ==
  Task(query, op, arg, "reading", <<>>, {}, <<arg>>, <<0>>)

\* the handler resumes with the metadata buildMetadata returned: it issues
\* its first reads, or settles when it has none to issue
afterMetadata(query, op, arg, meta) ==
  IF op = "getPositions"
    THEN IF meta = <<>> THEN Idle
         ELSE Task(query, op, arg, "balances", <<>>, {},
                   protocolTokens(meta), <<>>)
  ELSE IF op = "getTotalValueLocked"
    THEN IF meta = <<>> THEN Idle
         ELSE Task(query, op, arg, "reading", <<>>, {},
                   protocolTokens(meta), [i \in 1..Len(meta) |-> 0])
  ELSE IF ~fetchPoolMetadata(meta, arg).ok THEN Idle
  ELSE Task(query, op, arg, "reading", <<>>, {}, <<arg>>, <<0>>)

\* the first statement of every handler reaches buildMetadata: a populated
\* cache is returned, an empty one starts the resolution with marketsCreated
begin(query, op, arg) ==
  IF metadataCache # {}
    THEN afterMetadata(query, op, arg, CHOOSE m \in metadataCache : TRUE)
    ELSE Task(query, op, arg, "marketsCreated", <<>>, {}, <<>>, <<>>)

\* the queries a client starts on its own; of the two addresses a rate is
\* asked for, a supply adapter knows the second and a borrow adapter the first
AsyncQueries ==
  { <<"getPositions", "">>, <<"getTotalValueLocked", "">> }
    \cup { <<"getApr", a>> : a \in {WETH_PROTOCOL_TOKEN, "a1"} }

AsyncStart(k) ==
  /\ tasks[k] = Idle
  /\ metadataCache = {} => resolutions < MaxResolutions
  /\ \E q \in AsyncQueries :
       tasks' = [tasks EXCEPT ![k] = begin(q[1], q[1], q[2])]
  /\ resolutions' = IF metadataCache = {} THEN resolutions + 1
                                          ELSE resolutions
  /\ UNCHANGED <<positionType, markets, metadataCache, call>>

\* getProfits: Promise.all of getPositions at toBlock and at fromBlock, both
\* called before either awaits
AsyncGetProfits(k1, k2) ==
  /\ k1 < k2
  /\ tasks[k1] = Idle
  /\ tasks[k2] = Idle
  /\ metadataCache = {} => resolutions + 2 <= MaxResolutions
  /\ tasks' = [tasks EXCEPT
                 ![k1] = begin("getProfits", "getPositions", ""),
                 ![k2] = begin("getProfits", "getPositions", "")]
  /\ resolutions' = IF metadataCache = {} THEN resolutions + 2
                                          ELSE resolutions
  /\ UNCHANGED <<positionType, markets, metadataCache, call>>

\* marketsCreated() resolves: the reads of every market are issued
AsyncMarketsCreated(k) ==
  /\ tasks[k].pc = "marketsCreated"
  /\ tasks' = [tasks EXCEPT ![k] =
                 IF markets = <<>>
                   THEN [@ EXCEPT !.pc = "assign"]
                   ELSE [@ EXCEPT !.pc = "markets",
                                  !.pending = 1..Len(markets)]]
  /\ UNCHANGED <<positionType, markets, metadataCache, call, resolutions>>

\* the reads of one market settle, in any order among the markets, and its
\* entry is put in the metadataObject of this resolution; a rejected
\* UNDERLYING_ASSET_ADDRESS() is caught
AsyncResolveMarket(k) ==
  /\ tasks[k].pc = "markets"
  /\ \E i \in tasks[k].pending,
        caught \in IF positionType = "supply" THEN BOOLEAN ELSE {FALSE} :
       LET entry ==
             IF positionType = "borrow"
               THEN Entry(WETH_PROTOCOL_TOKEN, WETH_UNDERLYING_TOKEN)
               ELSE supplyEntry(markets[i],
                                IF caught THEN "UNDERLYING_ASSET_ADDRESS"
                                          ELSE NoFailure)
       IN  tasks' = [tasks EXCEPT ![k] =
                       [@ EXCEPT !.metadataObject = Put(@, entry),
                                 !.pending = @ \ {i},
                                 !.pc = IF tasks[k].pending = {i}
                                          THEN "assign" ELSE "markets"]]
  /\ UNCHANGED <<positionType, markets, metadataCache, call, resolutions>>

\* this._metadataCache = metadataObject; return metadataObject
AsyncAssign(k) ==
  /\ tasks[k].pc = "assign"
  /\ metadataCache' = {tasks[k].metadataObject}
  /\ tasks' = [tasks EXCEPT ![k] =
                 afterMetadata(tasks[k].query, tasks[k].op, tasks[k].arg,
                               tasks[k].metadataObject)]
  /\ UNCHANGED <<positionType, markets, call, resolutions>>

\* a batch of market reads of one token settles and the next is issued
AsyncReadDone(k) ==
  /\ tasks[k].pc = "reading"
  /\ \E t \in DOMAIN tasks[k].phase :
       /\ tasks[k].phase[t] < Len(MarketBatches)
       /\ LET phase == [tasks[k].phase EXCEPT ![t] = @ + 1]
          IN  tasks' = [tasks EXCEPT ![k] =
                         IF \A i \in DOMAIN phase :
                              phase[i] = Len(MarketBatches)
                           THEN Idle
                           ELSE [@ EXCEPT !.phase = phase]]
  /\ UNCHANGED <<positionType, markets, metadataCache, call, resolutions>>

\* the balance reads of getPositions settle
AsyncBalancesDone(k) ==
  /\ tasks[k].pc = "balances"
  /\ tasks' = [tasks EXCEPT ![k] = Idle]
  /\ UNCHANGED <<positionType, markets, metadataCache, call, resolutions>>

\* a read the handler awaits rejects, and the query with it
AsyncReadFails(k) ==
  /\ tasks[k].pc \in {"marketsCreated", "markets", "reading", "balances"}
  /\ tasks' = [tasks EXCEPT ![k] = Idle]
  /\ UNCHANGED <<positionType, markets, metadataCache, call, resolutions>>

AsyncInit ==
  /\ positionType \in {"supply", "borrow"}
  /\ markets \in MarketLists
  /\ metadataCache = {}
  /\ call = NoCall
  /\ tasks = [k \in TaskIds |-> Idle]
  /\ resolutions = 0

AsyncNext ==
  \/ \E k \in TaskIds : AsyncStart(k)
  \/ \E k1, k2 \in TaskIds : AsyncGetProfits(k1, k2)
  \/ \E k \in TaskIds : AsyncMarketsCreated(k)
  \/ \E k \in TaskIds : AsyncResolveMarket(k)
  \/ \E k \in TaskIds : AsyncAssign(k)
  \/ \E k \in TaskIds : AsyncReadDone(k)
  \/ \E k \in TaskIds : AsyncBalancesDone(k)
  \/ \E k \in TaskIds : AsyncReadFails(k)

AsyncSpec == AsyncInit /\ [][AsyncNext]_vars

----------------------------------------------------------------------------
(* The utilities, called on their own *)

\* bound: how far around each landmark of the ray scale the operands range
RayWindow == 3

\* the landmarks: zero, a third, a half, one and two in ray terms
RayLandmarks == {0, RAY \div 3, HALF_RAY, RAY, 2 * RAY}

RayValues ==
  { v \in { l + d : l \in RayLandmarks, d \in (0 - RayWindow)..RayWindow } :
      v >= 0 }

RayMulCall ==
  /\ call = NoCall
  /\ \E a \in RayValues, b \in RayValues :
       call' = [op |-> "rayMul", a |-> a, b |-> b,
                result |-> Ok(rayMul(a, b))]
  /\ UNCHANGED <<positionType, markets, metadataCache, inflight>>

RayDivCall ==
  /\ call = NoCall
  /\ \E a \in RayValues, b \in RayValues :
       call' = [op |-> "rayDiv", a |-> a, b |-> b, result |-> rayDiv(a, b)]
  /\ UNCHANGED <<positionType, markets, metadataCache, inflight>>

\* rayDiv(rayMul(a, b), b)
RayDivOfRayMul ==
  /\ call = NoCall
  /\ \E a \in RayValues, b \in RayValues :
       call' = [op |-> "rayDivOfRayMul", a |-> a, b |-> b,
                result |-> rayDiv(rayMul(a, b), b)]
  /\ UNCHANGED <<positionType, markets, metadataCache, inflight>>

----------------------------------------------------------------------------
(* getTokenMetadata: hardcoded data, the chain's file, then the chain *)

\* an address string: the token it names and the way it is written
Address(token, form) == [token |-> token, form |-> form]

\* the strings a caller may pass: the checksummed and the lower-case form of
\* an address, a mixed-case form with a wrong checksum, and no address at all
TokenAddresses ==
  { Address(t, f) : t \in {"t1", "reusd"},
                    f \in {"checksum", "lower", "badChecksum"} }
    \cup {Address("none", "malformed")}

\* ethers getAddress: the checksummed form, or a throw for a string that is
\* no address or carries a wrong checksum
getAddress(a) ==
  IF a.form \in {"checksum", "lower"}
    THEN Ok(Address(a.token, "checksum"))
    ELSE Err("INVALID_ARGUMENT")

\* String.prototype.toLowerCase
toLowerCase(a) ==
  IF a.form = "malformed" THEN a ELSE Address(a.token, "lower")

REAL_ESTATE_TOKEN_METADATA ==
  [address |-> Address("reusd", "checksum"), from |-> "hardcoded"]

Chains == {"Ethereum", "Arbitrum", "Optimism"}

\* CHAIN_METADATA: the chains that come with a metadata file
ChainsWithFile == {"Ethereum", "Arbitrum"}

\* the keys a chain's metadata file may hold
FileKeys ==
  {Address("t1", "lower"), Address("t1", "checksum"),
   Address("reusd", "lower")}

\* fileMetadata[key] of the chain's file, undefined as the empty set
fileTokenMetadata(chainId, file, key) ==
  IF chainId \in ChainsWithFile /\ key \in file
    THEN {[address |-> key, from |-> "file"]}
    ELSE {}

\* what the token contract answers: name() and symbol() return a string,
\* return bytes32 (BAD_DATA, decoded by the fallback), return data the
\* fallback cannot decode either, or revert; decimals() answers or reverts
OnChainAnswers ==
  [name : {"string", "bytes32", "badData", "reverts"},
   symbol : {"string", "bytes32", "badData", "reverts"},
   decimals : {"number", "reverts"}]

\* the bytes32 fallback tried after any error of the string read
fetchStringTokenDataAnyError(answer) ==
  IF answer = "string" THEN [result |-> Ok("string"), issued |-> {}]
  ELSE IF answer \in {"bytes32", "reverts"}
    THEN [result |-> Ok("bytes32"), issued |-> {"call"}]
  ELSE [result |-> Err("BAD_DATA"), issued |-> {"call"}]

\* fetchStringTokenData
fetchStringTokenData(answer) ==
  IF answer = "string" THEN [result |-> Ok("string"), issued |-> {}]
  ELSE IF answer = "bytes32"
    THEN [result |-> Ok("bytes32"), issued |-> {"call"}]
  ELSE IF answer = "badData"
    THEN [result |-> Err("BAD_DATA"), issued |-> {"call"}]
  ELSE [result |-> Err("CALL_EXCEPTION"), issued |-> {}]

\* getOnChainTokenMetadata: every error is caught and answered by undefined
\* (the empty set)
getOnChainTokenMetadata(tokenAddress, onChain) ==
  LET name == fetchStringTokenData(onChain.name)
      symbol == fetchStringTokenData(onChain.symbol)
      issued == {"name", "symbol", "decimals"}
                  \cup name.issued \cup symbol.issued
  IN  IF name.result.ok /\ symbol.result.ok /\ onChain.decimals = "number"
        THEN [found |-> {[address |-> getAddress(tokenAddress).val,
                          from |-> "chain"]},
              issued |-> issued]
        ELSE [found |-> {}, issued |-> issued]

\* getTokenMetadata with the file lookup left out
getTokenMetadataChainOnly(tokenAddress, chainId, file, native, onChain) ==
  IF ~getAddress(tokenAddress).ok
    THEN [result |-> getAddress(tokenAddress), issued |-> {}]
  ELSE IF /\ getAddress(tokenAddress).val = REAL_ESTATE_TOKEN_METADATA.address
          /\ chainId = "Ethereum"
    THEN [result |-> Ok(REAL_ESTATE_TOKEN_METADATA), issued |-> {}]
  ELSE IF native
    THEN [result |-> Ok([address |-> getAddress(tokenAddress).val,
                         from |-> "nativeToken"]),
          issued |-> {}]
  ELSE LET lookup == getOnChainTokenMetadata(tokenAddress, onChain)
       IN  IF lookup.found # {}
             THEN [result |-> Ok(CHOOSE m \in lookup.found : TRUE),
                   issued |-> lookup.issued]
             ELSE [result |-> Err(TokenMetadataNotFound),
                   issued |-> lookup.issued]

\* getTokenMetadata: `native` tells whether nativeTokenAddresses includes the
\* string passed
getTokenMetadata(tokenAddress, chainId, file, native, onChain) ==
  IF ~getAddress(tokenAddress).ok
    THEN [result |-> getAddress(tokenAddress), issued |-> {}]
  ELSE IF /\ getAddress(tokenAddress).val = REAL_ESTATE_TOKEN_METADATA.address
          /\ chainId = "Ethereum"
    THEN [result |-> Ok(REAL_ESTATE_TOKEN_METADATA), issued |-> {}]
  ELSE IF native
    THEN [result |-> Ok([address |-> getAddress(tokenAddress).val,
                         from |-> "nativeToken"]),
          issued |-> {}]
  ELSE IF fileTokenMetadata(chainId, file, toLowerCase(tokenAddress)) # {}
    THEN [result |->
            Ok([address |->
                  getAddress((CHOOSE m \in fileTokenMetadata(chainId, file,
                                toLowerCase(tokenAddress)) : TRUE).address).val,
                from |-> "file"]),
          issued |-> {}]
  ELSE LET lookup == getOnChainTokenMetadata(tokenAddress, onChain)
       IN  IF lookup.found # {}
             THEN [result |-> Ok(CHOOSE m \in lookup.found : TRUE),
                   issued |-> lookup.issued]
             ELSE [result |-> Err(TokenMetadataNotFound),
                   issued |-> lookup.issued]

GetTokenMetadata ==
  /\ call = NoCall
  /\ \E tokenAddress \in TokenAddresses, chainId \in Chains,
        file \in SUBSET FileKeys, native \in BOOLEAN,
        onChain \in OnChainAnswers :
       LET r == getTokenMetadata(tokenAddress, chainId, file, native, onChain)
       IN  call' = [op |-> "getTokenMetadata", tokenAddress |-> tokenAddress,
                    chainId |-> chainId, file |-> file, native |-> native,
                    onChain |-> onChain, issued |-> r.issued,
                    result |-> r.result]
  /\ UNCHANGED <<positionType, markets, metadataCache, inflight>>

\* the older resolver: what name(), symbol() and decimals() come to, the
\* bytes32 fallback after a CALL_EXCEPTION included
ThinAnswers ==
  [name : {"string", "fallback", "fails"},
   symbol : {"string", "fallback", "fails"},
   decimals : {"number", "reverts"}]

\* the reads of the older getOnChainTokenMetadata, awaited one after another
thinReads(onChain) ==
  IF onChain.name = "fails" THEN {"name"}
  ELSE IF onChain.symbol = "fails" THEN {"name", "symbol"}
  ELSE {"name", "symbol", "decimals"}

\* getThinTokenMetadata over the older getTokenMetadata: the file is looked
\* up under the address as given, and the chain is read only when the chain
\* has a provider
getThinTokenMetadata(tokenAddress, chainId, file, provider, onChain) ==
  IF fileTokenMetadata(chainId, file, tokenAddress) # {}
    THEN [result |-> Ok(CHOOSE m \in fileTokenMetadata(chainId, file,
                                       tokenAddress) : TRUE),
          issued |-> {}]
  ELSE IF ~provider
    THEN [result |-> Err(TokenMetadataNotFound), issued |-> {}]
  ELSE IF \/ "fails" \in {onChain.name, onChain.symbol}
          \/ onChain.decimals = "reverts"
    THEN [result |-> Err(TokenMetadataNotFound), issued |-> thinReads(onChain)]
  ELSE [result |-> Ok([address |-> toLowerCase(tokenAddress),
                       from |-> "chain"]),
        issued |-> thinReads(onChain)]

GetThinTokenMetadata ==
  /\ call = NoCall
  /\ \E tokenAddress \in TokenAddresses, chainId \in Chains,
        file \in SUBSET FileKeys, provider \in BOOLEAN,
        onChain \in ThinAnswers :
       LET r == getThinTokenMetadata(tokenAddress, chainId, file, provider,
                                     onChain)
       IN  call' = [op |-> "getThinTokenMetadata",
                    tokenAddress |-> tokenAddress, chainId |-> chainId,
                    file |-> file, provider |-> provider,
                    onChain |-> onChain, issued |-> r.issued,
                    result |-> r.result]
  /\ UNCHANGED <<positionType, markets, metadataCache, inflight>>

----------------------------------------------------------------------------
(* The blend of the two rates, called on its own *)

\* yearly rates as rays: none, 3%, 5%, a third
BlendRates == {0, (3 * RAY) \div 100, (5 * RAY) \div 100, RAY \div 3}

\* raw amounts matched peer-to-peer and held on the pool
BlendAmounts == {0, 1, 2, 7, 500, 1000}

BlendedRateCall ==
  /\ call = NoCall
  /\ \E p2pRate \in BlendRates, poolRate \in BlendRates,
        inP2P \in BlendAmounts, onPool \in BlendAmounts :
       call' = [op |-> "blendedRate", p2pRate |-> p2pRate,
                poolRate |-> poolRate, inP2P |-> inP2P, onPool |-> onPool,
                result |-> blendedRate(p2pRate, inP2P, poolRate, onPool)]
  /\ UNCHANGED <<positionType, markets, metadataCache, inflight>>

----------------------------------------------------------------------------
(* buildMetadata on a fresh adapter, for any list of markets *)

\* bound: the markets marketsCreated() may list
MaxMarkets == 3

\* the lists marketsCreated() may return, repeated markets included
CreatedMarketLists ==
  UNION { [1..n -> {"u1", "u2", "u3"}] : n \in 0..MaxMarkets }

BuildMetadataCall ==
  /\ call = NoCall
  /\ \E pt \in {"supply", "borrow"}, mkts \in CreatedMarketLists,
        fail \in FailuresOf(metadataReads({})) :
       LET md == buildMetadata({}, pt, mkts, fail)
       IN  call' = [op |-> "buildMetadata", positionType |-> pt,
                    marketsCreated |-> mkts, fail |-> fail,
                    issued |-> md.issued, result |-> md.result]
  /\ UNCHANGED <<positionType, markets, metadataCache, inflight>>

----------------------------------------------------------------------------
(* The chain and protocol filters.  A string is the sequence of its pieces:
   a blank " ", a comma "," or a word, so that trimming, lower-casing and
   splitting are computed; undefined is the empty set. *)

\* Chain with ChainName, in declaration order
Chain ==
  << [key |-> "Ethereum", id |-> 1, name |-> "ethereum"],
     [key |-> "Optimism", id |-> 10, name |-> "op"] >>

\* Protocol, in declaration order
Protocol ==
  << [key |-> "AaveV2", id |-> "aave-v2"],
     [key |-> "Curve", id |-> "curve"],
     [key |-> "MorphoAaveV3", id |-> "morpho-aave-v3"] >>

\* Number.prototype.toString of a chain id
numberToString(n) == IF n = 1 THEN <<"1">> ELSE <<"10">>

\* String.prototype.toLowerCase of one piece
pieceToLowerCase(w) ==
  CASE w \in {"Ethereum", "ETHEREUM"} -> "ethereum"
    [] w = "Optimism" -> "optimism"
    [] w = "Op" -> "op"
    [] w = "AaveV2" -> "aavev2"
    [] w \in {"Curve", "CURVE"} -> "curve"
    [] w = "MorphoAaveV3" -> "morphoaavev3"
    [] OTHER -> w

\* String.prototype.toLowerCase
stringToLowerCase(s) == [i \in DOMAIN s |-> pieceToLowerCase(s[i])]

\* String.prototype.trim
RECURSIVE trim(_)
trim(s) ==
  IF s = <<>> THEN s
  ELSE IF Head(s) = " " THEN trim(Tail(s))
  ELSE IF s[Len(s)] = " " THEN trim(SubSeq(s, 1, Len(s) - 1))
  ELSE s

\* String.prototype.split(',')
RECURSIVE split(_)
split(s) ==
  IF \A i \in DOMAIN s : s[i] # "," THEN <<s>>
  ELSE LET k == CHOOSE i \in DOMAIN s :
                  /\ s[i] = ","
                  /\ \A j \in 1..(i - 1) : s[j] # ","
       IN  <<SubSeq(s, 1, k - 1)>> \o split(SubSeq(s, k + 1, Len(s)))

NoChainMatches == "No chain matches the given filter"

NoProtocolMatches == "No protocol matches the given filter"

\* the first index of a non-empty set of indexes (Array.prototype.find)
firstOf(indexes) == CHOOSE i \in indexes : \A j \in indexes : i <= j

\* the filter values of a chain: its id, its key and its name
chainFilterValues(chain) ==
  { numberToString(chain.id), stringToLowerCase(<<chain.key>>),
    stringToLowerCase(<<chain.name>>) }

\* the filter values of a protocol: its id and its key
protocolFilterValues(protocol) ==
  { <<protocol.id>>, stringToLowerCase(<<protocol.key>>) }

\* chainFilter comparing the input as given
chainFilterUntrimmed(filterInput) ==
  IF filterInput = {} \/ filterInput = {<<>>} THEN Ok({})
  ELSE LET s == CHOOSE x \in filterInput : TRUE
           found == { i \in DOMAIN Chain :
                        stringToLowerCase(s) \in chainFilterValues(Chain[i]) }
       IN  IF found = {} THEN Err(NoChainMatches)
           ELSE Ok({Chain[firstOf(found)].id})

\* chainFilter
chainFilter(filterInput) ==
  IF filterInput = {} \/ filterInput = {<<>>} THEN Ok({})
  ELSE LET s == CHOOSE x \in filterInput : TRUE
           found == { i \in DOMAIN Chain :
                        stringToLowerCase(trim(s))
                          \in chainFilterValues(Chain[i]) }
       IN  IF found = {} THEN Err(NoChainMatches)
           ELSE Ok({Chain[firstOf(found)].id})

\* protocolFilter
protocolFilter(filterInput) ==
  IF filterInput = {} \/ filterInput = {<<>>} THEN Ok({})
  ELSE LET s == CHOOSE x \in filterInput : TRUE
           found == { i \in DOMAIN Protocol :
                        stringToLowerCase(trim(s))
                          \in protocolFilterValues(Protocol[i]) }
       IN  IF found = {} THEN Err(NoProtocolMatches)
           ELSE Ok({Protocol[firstOf(found)].id})

\* the values of the answers that are not undefined, in order
RECURSIVE definedOnly(_)
definedOnly(answers) ==
  IF answers = <<>> THEN <<>>
  ELSE (IF Head(answers).val = {} THEN <<>>
        ELSE <<CHOOSE v \in Head(answers).val : TRUE>>)
       \o definedOnly(Tail(answers))

\* filterMap, given the callback's answer for each element in order: undefined
\* is dropped, and the first throw ends the call
filterMap(answers) ==
  LET thrown == { i \in DOMAIN answers : ~answers[i].ok }
  IN  IF thrown # {} THEN answers[firstOf(thrown)]
      ELSE Ok({definedOnly(answers)})

\* the callback of multiChainFilter
cleanChainFilter(filter) ==
  IF trim(filter) # <<>> THEN chainFilter({trim(filter)}) ELSE Ok({})

\* the callback of multiProtocolFilter
cleanProtocolFilter(filter) ==
  IF trim(filter) # <<>> THEN protocolFilter({trim(filter)}) ELSE Ok({})

\* multiChainFilter
multiChainFilter(filterInput) ==
  IF filterInput = {} \/ filterInput = {<<>>} THEN Ok({})
  ELSE LET array == split(CHOOSE x \in filterInput : TRUE)
       IN  filterMap([i \in DOMAIN array |-> cleanChainFilter(array[i])])

\* multiProtocolFilter
multiProtocolFilter(filterInput) ==
  IF filterInput = {} \/ filterInput = {<<>>} THEN Ok({})
  ELSE LET array == split(CHOOSE x \in filterInput : TRUE)
       IN  filterMap([i \in DOMAIN array |-> cleanProtocolFilter(array[i])])

\* bound: the pieces of a filter input
MaxPieces == 3

\* the pieces of the inputs given to the chain filters
ChainPieces == {" ", ",", "1", "ETHEREUM", "Op", "Optimism", "nope"}

\* the pieces of the inputs given to the protocol filters
ProtocolPieces == {" ", ",", "aave-v2", "AaveV2", "CURVE", "nope"}

\* an absent input, and every string of the pieces
FilterInputs(pieces) ==
  {{}} \cup { {s} : s \in UNION { [1..n -> pieces] : n \in 0..MaxPieces } }

ChainFilterCall ==
  /\ call = NoCall
  /\ \E filterInput \in FilterInputs(ChainPieces) :
       call' = [op |-> "chainFilter", filterInput |-> filterInput,
                result |-> chainFilter(filterInput)]
  /\ UNCHANGED <<positionType, markets, metadataCache, inflight>>

ProtocolFilterCall ==
  /\ call = NoCall
  /\ \E filterInput \in FilterInputs(ProtocolPieces) :
       call' = [op |-> "protocolFilter", filterInput |-> filterInput,
                result |-> protocolFilter(filterInput)]
  /\ UNCHANGED <<positionType, markets, metadataCache, inflight>>

MultiChainFilterCall ==
  /\ call = NoCall
  /\ \E filterInput \in FilterInputs(ChainPieces) :
       call' = [op |-> "multiChainFilter", filterInput |-> filterInput,
                result |-> multiChainFilter(filterInput)]
  /\ UNCHANGED <<positionType, markets, metadataCache, inflight>>

MultiProtocolFilterCall ==
  /\ call = NoCall
  /\ \E filterInput \in FilterInputs(ProtocolPieces) :
       call' = [op |-> "multiProtocolFilter", filterInput |-> filterInput,
                result |-> multiProtocolFilter(filterInput)]
  /\ UNCHANGED <<positionType, markets, metadataCache, inflight>>

----------------------------------------------------------------------------
(* CurveStakingAdapter.buildMetadata, in its two revisions: the entries are
   keyed by the staking token (Staking) or by the LP token (Lp) *)

CurveRevisions == {"Staking", "Lp"}

\* getPoolData found no pool
NoPool == [found |-> FALSE]

\* the LP token of a pool, as getPoolData describes it
lpToken(address) == [address |-> address, symbol |-> "LP"]

\* what getPoolData may answer for one index; a pool without a staking token
\* has none (the empty set)
PoolData ==
  {NoPool}
    \cup [found : {TRUE}, protocolToken : {lpToken("lp1"), lpToken("lp2")},
          stakingToken : {{}, {"g1"}, {"g2"}}]

\* the entry of a pool, built whether or not the pool has a staking token
curveStakingEntryOfAnyPool(token, revision) ==
  IF ~token.found THEN {}
  ELSE LET address ==
             IF revision = "Staking" /\ token.stakingToken # {}
               THEN CHOOSE g \in token.stakingToken : TRUE
               ELSE token.protocolToken.address
       IN  { [key |-> address,
              protocolToken |->
                [token.protocolToken EXCEPT !.address = address],
              underlyingTokens |-> <<token.protocolToken>>] }

\* the entry the callback writes for one pool, if any
curveStakingEntry(token, revision) ==
  IF ~token.found \/ token.stakingToken = {} THEN {}
  ELSE LET address ==
             IF revision = "Staking"
               THEN CHOOSE g \in token.stakingToken : TRUE
               ELSE token.protocolToken.address
       IN  { [key |-> address,
              protocolToken |->
                [token.protocolToken EXCEPT !.address = address],
              underlyingTokens |-> <<token.protocolToken>>] }

\* the callback over the results, in order
RECURSIVE curveStakingEntries(_, _, _)
curveStakingEntries(results, revision, metadata) ==
  IF results = <<>> THEN metadata
  ELSE LET e == curveStakingEntry(Head(results), revision)
       IN  curveStakingEntries(Tail(results), revision,
             IF e = {} THEN metadata
             ELSE Put(metadata, CHOOSE x \in e : TRUE))

\* CurveStakingAdapter.buildMetadata
curveStakingBuildMetadata(results, revision, fail) ==
  IF fail # NoFailure THEN Err(UpstreamReadFailure)
  ELSE Ok(curveStakingEntries(results, revision, <<>>))

\* bound: the pools pool_count() may report
MaxPools == 3

CurveBuildMetadataCall ==
  /\ call = NoCall
  /\ \E revision \in CurveRevisions,
        results \in UNION { [1..n -> PoolData] : n \in 0..MaxPools } :
       \E fail \in {NoFailure, "pool_count"}
                     \cup (IF results = <<>> THEN {} ELSE {"getPoolData"}) :
         call' = [op |-> "CurveStakingAdapter.buildMetadata",
                  revision |-> revision, results |-> results, fail |-> fail,
                  result |-> curveStakingBuildMetadata(results, revision,
                                                       fail)]
  /\ UNCHANGED <<positionType, markets, metadataCache, inflight>>

UtilInit ==
  /\ positionType = "supply"
  /\ markets = <<>>
  /\ metadataCache = {}
  /\ call = NoCall
  /\ tasks = [k \in TaskIds |-> Idle]
  /\ resolutions = 0

UtilNext ==
  \/ RayMulCall
  \/ RayDivCall
  \/ RayDivOfRayMul
  \/ GetTokenMetadata
  \/ GetThinTokenMetadata
  \/ BlendedRateCall
  \/ BuildMetadataCall
  \/ ChainFilterCall
  \/ ProtocolFilterCall
  \/ MultiChainFilterCall
  \/ MultiProtocolFilterCall
  \/ CurveBuildMetadataCall

UtilSpec == UtilInit /\ [][UtilNext]_vars

----------------------------------------------------------------------------
(* Properties *)

RateOps == {"getTotalValueLocked", "getApr", "getApy"}

\* the scaled P2P total and the last P2P index of the adapter's side
sideScaledP2PTotal(pt, s) ==
  IF pt = "supply" THEN s.market.deltas.supply.scaledP2PTotal
                   ELSE s.market.deltas.borrow.scaledP2PTotal

\* C1: in getTotalValueLocked and _getProtocolTokenApr, a market whose
\* supply-side scaledP2PTotal is 0 has proportionIdle 0 whatever its
\* idleSupply, and computing it divides by zero nowhere.
C1_ProportionIdleZeroWithoutP2P ==
  call.op \in RateOps =>
    \A u \in DOMAIN call.snaps :
      call.snaps[u].market.deltas.supply.scaledP2PTotal = 0
        => call.idle[u] = Ok(0)

\* C2: in _getProtocolTokenApr, a market whose total amount (P2P amount at
\* the new P2P index plus pool-held balance) is 0 yields the raw pool rate
\* of the adapter's side.
C2_ZeroTotalYieldsPoolRate ==
  call.op \in {"getApr", "getApy"} =>
    \A u \in DOMAIN call.snaps :
      (/\ sideScaledP2PTotal(positionType, call.snaps[u]) = 0
       /\ call.snaps[u].onPool = 0)
        => call.result = Ok(poolRatePerYear(positionType, call.snaps[u]))

\* C3: whenever proportionIdle is computed, the value handed to the index
\* and rate calculators lies in [0, RAY].
C3_ProportionIdleInRange ==
  call.op \in RateOps =>
    \A u \in DOMAIN call.idle :
      call.idle[u].ok => (0 <= call.idle[u].val /\ call.idle[u].val <= RAY)

\* C3 witness: a market whose idle supply exceeds its P2P supply, clamped
C3_Witness ==
  /\ call.op \in RateOps
  /\ \E u \in DOMAIN call.idle :
       /\ call.idle[u] = Ok(RAY)
       /\ call.snaps[u].market.idleSupply
            > indexMul(call.snaps[u].market.deltas.supply.scaledP2PTotal,
                       call.snaps[u].market.indexes.supply.p2pIndex)

\* the total of one market as getTotalValueLocked is to report it
expectedTotal(pt, s, pIdle) ==
  LET ix == computeP2PIndexes(P2PIndexesInput(s, pIdle)).val
  IN  IF pt = "supply"
        THEN indexMul(s.market.deltas.supply.scaledP2PTotal,
                      ix.newP2PSupplyIndex) + s.onPool
        ELSE indexMul(s.market.deltas.borrow.scaledP2PTotal,
                      ix.newP2PBorrowIndex) + s.onPool

\* C4: getTotalValueLocked reports, for each market, the scaled P2P total of
\* the adapter's side at the newly computed P2P index of that side, plus the
\* pool-held balance of the Morpho contract.
C4_TotalIsP2PPlusPool ==
  (call.op = "getTotalValueLocked" /\ call.result.ok) =>
    /\ Len(call.result.val) = Len(CHOOSE m \in metadataCache : TRUE)
    /\ \A i \in 1..Len(call.result.val) :
         LET e == (CHOOSE m \in metadataCache : TRUE)[i]
             u == e.underlyingToken
         IN  /\ call.result.val[i].address = e.protocolToken
             /\ call.result.val[i].totalSupplyRaw
                  = expectedTotal(positionType, call.snaps[u],
                                  call.idle[u].val)

\* C4 witness: scaledP2PTotal 1000 at index 1.1 ray with 500 on the pool
\* is reported as 1600, on the borrow side of a market whose sides differ
C4_Witness ==
  /\ call.op = "getTotalValueLocked"
  /\ call.result.ok
  /\ positionType = "borrow"
  /\ \E i \in 1..Len(call.result.val) :
       LET s == call.snaps[(CHOOSE m \in metadataCache : TRUE)[i]
                             .underlyingToken]
       IN  /\ s.market.deltas.borrow.scaledP2PTotal = 1000
           /\ s.market.deltas.supply.scaledP2PTotal = 0
           /\ s.market.indexes.borrow.p2pIndex = (11 * RAY) \div 10
           /\ s.reserve.liquidityIndex = RAY
           /\ s.onPool = 500
           /\ call.result.val[i].totalSupplyRaw = 1600

\* the resolved metadata of the adapter
resolved == CHOOSE m \in metadataCache : TRUE

\* the user's balance in one market as the chain holds it, on the adapter's
\* side
chainBalance(pt, b) ==
  IF pt = "supply" THEN b.supplyBalance + b.collateralBalance
                   ELSE b.borrowBalance

\* C9: getPositions returns exactly one position per known market whose
\* balance at the block is non-zero and none for a zero balance; the balance
\* is supplyBalance + collateralBalance (supply) or borrowBalance (borrow),
\* and the underlying balance attached equals the protocol-token balance.
C9_PositionsAreNonZeroBalances ==
  (call.op = "getPositions" /\ call.result.ok) =>
    LET r == call.result.val
        bal(u) == chainBalance(positionType, call.bals[u])
    IN  /\ \A i \in 1..Len(resolved) :
             Cardinality({ j \in 1..Len(r) :
                             r[j].address = resolved[i].protocolToken })
               = IF bal(resolved[i].underlyingToken) # 0 THEN 1 ELSE 0
        /\ \A j \in 1..Len(r) :
             \E i \in 1..Len(resolved) :
               /\ r[j].address = resolved[i].protocolToken
               /\ r[j].balanceRaw = bal(resolved[i].underlyingToken)
               /\ r[j].tokens
                    = << [address |-> resolved[i].underlyingToken,
                          balanceRaw |-> r[j].balanceRaw] >>

\* C9 witness: of two markets, the one with an empty balance is left out and
\* the one with supply 200 and collateral 120 is reported with 320
C9_Witness ==
  /\ call.op = "getPositions"
  /\ call.result.ok
  /\ positionType = "supply"
  /\ Len(resolved) = 2
  /\ Len(call.result.val) = 1
  /\ call.bals[resolved[1].underlyingToken] = Balances(0, 0, 0)
  /\ call.bals[resolved[2].underlyingToken] = Balances(200, 120, 0)
  /\ call.result.val[1].address = resolved[2].protocolToken
  /\ call.result.val[1].balanceRaw = 320
  /\ call.result.val[1].tokens[1].balanceRaw = 320

\* the metadata entry of a protocol token
entryOf(protocolToken) ==
  CHOOSE e \in Range(resolved) : e.protocolToken = protocolToken

\* the profit entries of a getProfits result: <<protocol token, entry>>
profitEntries ==
  { <<call.result.val[i].address, call.result.val[i].tokens[j]>> :
      i \in 1..Len(call.result.val), j \in {1} }

RECURSIVE amountSum(_)
amountSum(logs) ==
  IF logs = <<>> THEN 0 ELSE Head(logs).amount + amountSum(Tail(logs))

calculationDataOf(t) ==
  [outRaw |-> t.calculationData.withdrawalsRaw,
   inRaw |-> t.calculationData.depositsRaw,
   endPositionValueRaw |-> t.calculationData.endPositionValueRaw,
   startPositionValueRaw |-> t.calculationData.startPositionValueRaw]

\* C6: the profitRaw of a borrow position is the exact negative of the
\* profitRaw a supply position has for the same start value, end value,
\* outflow sum and inflow sum.
C6_BorrowProfitIsNegated ==
  (call.op = "getProfits" /\ call.result.ok /\ positionType = "borrow") =>
    \A pe \in profitEntries :
      pe[2].profitRaw = 0 - profitRaw("supply", calculationDataOf(pe[2]))

\* C6 witness: a borrow position grown from 200 to 320 with 150 borrowed and
\* 30 repaid: the supply formula gives 240, the borrow adapter reports -240
C6_Witness ==
  /\ call.op = "getProfits"
  /\ call.result.ok
  /\ positionType = "borrow"
  /\ \E pe \in profitEntries :
       /\ pe[2].calculationData
            = [withdrawalsRaw |-> 150, depositsRaw |-> 30,
               startPositionValueRaw |-> 200, endPositionValueRaw |-> 320]
       /\ pe[2].profitRaw = -240

\* C7: on a supply adapter the inflow used for a token is the sum of the
\* amounts of every deposit and every collateral deposit of the range, and
\* the outflow the sum of every withdrawal and every collateral withdrawal.
C7_FlowsAreSumsOfAllEvents ==
  (call.op = "getProfits" /\ call.result.ok /\ positionType = "supply") =>
    \A pe \in profitEntries :
      /\ pe[2].calculationData.depositsRaw
           = amountSum(call.logs[pe[1]]["supplied"])
               + amountSum(call.logs[pe[1]]["collat-supplied"])
      /\ pe[2].calculationData.withdrawalsRaw
           = amountSum(call.logs[pe[1]]["withdrawn"])
               + amountSum(call.logs[pe[1]]["collat-withdrawn"])

\* the orders a list of logs can come in
PermsOf(seq) ==
  { [i \in 1..Len(seq) |-> seq[p[i]]] :
      p \in { q \in [1..Len(seq) -> 1..Len(seq)] :
                \A i, j \in 1..Len(seq) : q[i] = q[j] => i = j } }

\* a function with every value f[x] replaced by one of its orders
RECURSIVE ReorderedOver(_, _)
ReorderedOver(f, keys) ==
  IF keys = {} THEN { <<>> }
  ELSE LET k == CHOOSE x \in keys : TRUE
       IN  { (k :> q) @@ rest :
               q \in PermsOf(f[k]), rest \in ReorderedOver(f, keys \ {k}) }

\* the logs of one contract with every list in any order
ReorderedLogs(l) == ReorderedOver(l, DOMAIN l)

RECURSIVE ReorderingsOver(_, _)
ReorderingsOver(logs, contracts) ==
  IF contracts = {} THEN { <<>> }
  ELSE LET a == CHOOSE x \in contracts : TRUE
       IN  { (a :> l) @@ rest :
               l \in ReorderedLogs(logs[a]),
               rest \in ReorderingsOver(logs, contracts \ {a}) }

Reorderings(logs) == ReorderingsOver(logs, DOMAIN logs)

\* C8: the outcome of getProfits is the same for every order of the movement
\* events of the block range.
C8_ProfitsIgnoreEventOrder ==
  (call.op = "getProfits" /\ DOMAIN call.logs # {}) =>
    \A reordered \in Reorderings(call.logs) :
      profitsOf(positionType, resolved,
                positionsOf(positionType, resolved, call.endBals),
                positionsOf(positionType, resolved, call.startBals),
                reordered) = call.result

\* C8 witness: two deposits of different amounts, reported as their sum
C8_Witness ==
  /\ call.op = "getProfits"
  /\ call.result.ok
  /\ positionType = "supply"
  /\ \E pe \in profitEntries :
       /\ Len(call.logs[pe[1]]["supplied"]) = 2
       /\ call.logs[pe[1]]["supplied"][1].amount
            # call.logs[pe[1]]["supplied"][2].amount
       /\ Cardinality(Reorderings(call.logs)) > 1
       /\ pe[2].calculationData.depositsRaw = 150

\* C10: a query during which an on-chain read fails (the reads of the
\* metadata resolution included) fails as a whole.
C10_ReadFailureFailsQuery ==
  (call.op # "none" /\ call.fail \in call.issued) => ~call.result.ok

\* the addresses the logs of a getProfits call name as underlying
loggedUnderlyings ==
  UNION { UNION { { call.logs[a][t][i].underlying :
                      i \in DOMAIN call.logs[a][t] } :
                  t \in DOMAIN call.logs[a] } :
          a \in DOMAIN call.logs }

\* C11: a query that looks up, in resolved metadata, a protocol-token address
\* with no entry fails with 'Protocol token pool not found': getApr and getApy
\* for the address asked, getProfits for the address a movement event names.
C11_UnknownTokenFails ==
  /\ (/\ call.op \in {"getApr", "getApy"}
      /\ metadataCache # {}
      /\ call.protocolTokenAddress \notin Keys(resolved))
       => call.result = Err(PoolNotFound)
  /\ (/\ call.op = "getProfits"
      /\ metadataCache # {}
      /\ \E u \in loggedUnderlyings : u \notin Keys(resolved))
       => call.result = Err(PoolNotFound)

\* C11 witness: with two markets resolved, getApr is asked the rate of u1,
\* the underlying token of the first, which is the key of no entry
C11_Witness ==
  /\ call.op = "getApr"
  /\ metadataCache # {}
  /\ Len(resolved) = 2
  /\ call.protocolTokenAddress = "u1"
  /\ "u1" \in underlyingTokens(resolved)
  /\ call.result = Err(PoolNotFound)

\* C12: every unfinished capability fails with NotImplementedError on every
\* call, before any chain read is issued, and never returns a value.
C12_UnfinishedFailsAtOnce ==
  call.op \in {"getProtocolTokenToUnderlyingTokenRate"}
                \cup CurveStakingUnfinished
    => /\ call.result = Err(NotImplementedError)
       /\ call.issued = {}

\* C12 witness: the conversion rate is asked of an adapter whose metadata is
\* resolved and knows the token; the call fails all the same
C12_Witness ==
  /\ call.op = "getProtocolTokenToUnderlyingTokenRate"
  /\ metadataCache # {}
  /\ call.protocolTokenAddress \in Keys(resolved)
  /\ call.result = Err(NotImplementedError)

\* C13: on one adapter the on-chain metadata resolution runs at most once,
\* over any sequence or interleaving of queries.
C13_ResolutionRunsAtMostOnce == resolutions <= 1

\* a metadata object as a mapping: its entries, whatever their order
mappingOf(meta) == Range(meta)

\* C14: a populated metadata cache is never cleared nor replaced by different
\* content, so overlapping resolutions return the same mapping and the cache
\* holds what a single resolution produces.
C14_PopulatedCacheKeepsContent ==
  [][metadataCache # {} =>
       /\ metadataCache' # {}
       /\ mappingOf(CHOOSE m \in metadataCache' : TRUE)
            = mappingOf(CHOOSE m \in metadataCache : TRUE)]_vars

\* the market reads a query in flight awaits, and those it has seen settle
readsInFlight(task) ==
  IF task.pc # "reading" THEN {}
  ELSE { [read |-> r, token |-> task.tokens[i]] :
           <<r, i>> \in { x \in (UNION Range(MarketBatches))
                                  \X DOMAIN task.phase :
                             /\ task.phase[x[2]] < Len(MarketBatches)
                             /\ x[1] \in MarketBatches[task.phase[x[2]] + 1] } }

readsSettled(task) ==
  IF task.pc # "reading" THEN {}
  ELSE { [read |-> r, token |-> task.tokens[i]] :
           <<r, i>> \in { x \in (UNION Range(MarketBatches))
                                  \X DOMAIN task.phase :
                             \E n \in 1..task.phase[x[2]] :
                               x[1] \in MarketBatches[n] } }

\* C16: in getTotalValueLocked and _getProtocolTokenApr the market-state and
\* reserve-data reads are in flight only once the metadata is resolved and
\* holds the token, and the balanceOf read of a token only once the
\* market-state read of that token has settled.
C16_DependentReadsAreSequenced ==
  \A k \in TaskIds :
    \A r \in readsInFlight(tasks[k]) :
      /\ r.read \in {"market", "getReserveData"}
           => /\ metadataCache # {}
              /\ r.token \in Keys(CHOOSE m \in metadataCache : TRUE)
      /\ r.read = "balanceOf"
           => [read |-> "market", token |-> r.token]
                \in readsSettled(tasks[k])

\* C16 witness: getTotalValueLocked over two markets awaits the balanceOf of
\* one, whose market state it has read, and the market state of the other
C16_Witness ==
  \E k \in TaskIds :
    /\ tasks[k].pc = "reading"
    /\ tasks[k].op = "getTotalValueLocked"
    /\ \E t1, t2 \in Range(tasks[k].tokens) :
         /\ t1 # t2
         /\ [read |-> "balanceOf", token |-> t1] \in readsInFlight(tasks[k])
         /\ [read |-> "market", token |-> t1] \in readsSettled(tasks[k])
         /\ [read |-> "market", token |-> t2] \in readsInFlight(tasks[k])

\* C15: market snapshots are never kept: every getTotalValueLocked, getApr,
\* getApy and getPositions call that gets past the metadata reads the market
\* state, the reserve data and the balances again, for every token it
\* answers for, also when the metadata cache is already populated; and the
\* call leaves the adapter's position type alone (the metadata cache is the
\* only adapter state it may change).
C15_SnapshotsAreReadPerCall ==
  [][ /\ call = NoCall
      /\ call'.op \in {"getTotalValueLocked", "getApr", "getApy",
                       "getPositions"}
      => /\ positionType' = positionType
         /\ metadataCache # {} => metadataCache' = metadataCache
         /\ metadataCache' # {}
            => LET meta == CHOOSE m \in metadataCache' : TRUE
                   asked == IF call'.op = "getTotalValueLocked"
                              THEN underlyingTokens(meta)
                            ELSE IF call'.op = "getPositions"
                              THEN underlyingTokens(meta)
                            ELSE IF call'.protocolTokenAddress \in Keys(meta)
                              THEN {fetchPoolMetadata(meta,
                                      call'.protocolTokenAddress)
                                      .val.underlyingToken}
                            ELSE {}
               IN  asked # {}
                   => IF call'.op = "getPositions"
                        THEN /\ BalanceBatch(positionType) \subseteq call'.issued
                             /\ call'.fail = NoFailure
                                  => DOMAIN call'.bals = asked
                        ELSE /\ {"market", "getReserveData"}
                                  \subseteq call'.issued
                             /\ call'.fail \notin {"market", "getReserveData"}
                                  => "balanceOf" \in call'.issued
                             /\ call'.fail = NoFailure
                                  => DOMAIN call'.snaps = asked
    ]_vars

\* C15 witness: a rate is asked of an adapter whose metadata was resolved by
\* an earlier call: no metadata read is issued, and the market, the reserve
\* and the pool-held balance are read again
C15_Witness ==
  /\ call.op \in {"getApr", "getApy"}
  /\ call.fail = NoFailure
  /\ call.issued = {"market", "getReserveData", "balanceOf"}
  /\ metadataCache # {}
  /\ DOMAIN call.snaps # {}
  /\ call.result.ok

\* C17 as stated: for all ray values a > 0 and b > 0,
\* rayDiv(rayMul(a, b), b) differs from a by at most 1 unit.
C17_RoundTripWithinOneUnit ==
  call.op = "rayDivOfRayMul" /\ call.a > 0 /\ call.b > 0
    => /\ call.result.ok
       /\ call.result.val - call.a \in {-1, 0, 1}

\* C17, amended: the round trip is within 1 unit of a for every a > 0 once b
\* is more than a third of RAY (each rounding errs by at most half a unit,
\* and the division by b scales the first by RAY / b).
C17_RoundTripWithinOneUnitAboveThird ==
  call.op = "rayDivOfRayMul" /\ call.a > 0 /\ 3 * call.b > RAY
    => /\ call.result.ok
       /\ call.result.val - call.a \in {-1, 0, 1}

\* C17 witness: a round trip through a b below RAY that lands one unit off
C17_Witness ==
  /\ call.op = "rayDivOfRayMul"
  /\ call.a > 0
  /\ 3 * call.b > RAY
  /\ call.b < RAY
  /\ call.result.ok
  /\ call.result.val - call.a \in {-1, 1}

\* C18: rayDiv fails, with DivisionByZero, exactly when its divisor is 0,
\* whatever the dividend; rayMul never fails.
C18_DivisionByZeroOnlyOnZeroDivisor ==
  /\ call.op \in {"rayDiv", "rayDivOfRayMul"}
       => /\ call.result.ok <=> call.b # 0
          /\ ~call.result.ok => call.result = Err("DivisionByZero")
  /\ call.op = "rayMul" => call.result.ok /\ call.result.val \in Nat

\* C18 witness: a non-zero dividend divided by zero
C18_Witness ==
  /\ call.op = "rayDiv"
  /\ call.a > 0
  /\ call.b = 0
  /\ call.result = Err("DivisionByZero")

\* the market state of the worked example: P2P supply index 1.0 ray, pool
\* supply index grown 5% and pool borrow index grown 7% since the last update,
\* cursor 5000 bps, reserve factor 1000 bps
exampleOfGrowth(s) ==
  /\ s.market.indexes.supply = [poolIndex |-> RAY, p2pIndex |-> RAY]
  /\ s.market.indexes.borrow.poolIndex = RAY
  /\ s.reserve.liquidityIndex = (105 * RAY) \div 100
  /\ s.reserve.variableBorrowIndex = (107 * RAY) \div 100
  /\ s.market.p2pIndexCursor = 5000
  /\ s.market.reserveFactor = 1000

\* C19: with previous P2P supply index 1.0 ray, pool supply growth 5%, pool
\* borrow growth 7%, cursor 5000 bps, reserve factor 1000 bps and
\* proportionIdle 0, computeP2PIndexes returns the P2P supply index 1.054 ray
\* (the previous index times the blended growth less the reserve factor), and
\* the value getTotalValueLocked reports for a supply market is its scaled
\* P2P total at that index plus the pool-held balance.
C19_P2PSupplyIndexOfExample ==
  call.op = "getTotalValueLocked" /\ positionType = "supply"
    /\ call.result.ok
    => \A i \in 1..Len(call.result.val) :
         LET s == call.snaps[resolved[i].underlyingToken]
         IN  exampleOfGrowth(s)
             /\ call.idle[resolved[i].underlyingToken] = Ok(0)
             => /\ computeP2PIndexes(P2PIndexesInput(s, 0))
                    .val.newP2PSupplyIndex = (1054 * RAY) \div 1000
                /\ call.result.val[i].totalSupplyRaw
                     = rayMul(s.market.deltas.supply.scaledP2PTotal,
                              (1054 * RAY) \div 1000) + s.onPool

\* C19 witness: a supply market in the example's state with 1000 scaled units
\* matched peer-to-peer is valued at 1054 units plus the pool-held balance
C19_Witness ==
  /\ call.op = "getTotalValueLocked"
  /\ positionType = "supply"
  /\ call.result.ok
  /\ \E i \in 1..Len(call.result.val) :
       LET s == call.snaps[resolved[i].underlyingToken]
       IN  /\ exampleOfGrowth(s)
           /\ s.market.idleSupply = 0
           /\ s.market.deltas.supply.scaledP2PTotal = 1000
           /\ call.result.val[i].totalSupplyRaw = 1054 + s.onPool

\* the chain's file holds an entry for the token of the call
fileHasEntry ==
  fileTokenMetadata(call.chainId, call.file,
                    toLowerCase(call.tokenAddress)) # {}

\* the on-chain lookup of the call fails
onChainFails ==
  \/ call.onChain.name \in {"badData", "reverts"}
  \/ call.onChain.symbol \in {"badData", "reverts"}
  \/ call.onChain.decimals = "reverts"

\* the call is answered from data written into the code: the Real Estate USD
\* token on Ethereum, or a native-token address
answeredFromCode ==
  \/ /\ getAddress(call.tokenAddress) = Ok(REAL_ESTATE_TOKEN_METADATA.address)
     /\ call.chainId = "Ethereum"
  \/ call.native

\* file first, then the chain, then the throw
fileThenChain ==
  /\ fileHasEntry
       => /\ call.result.ok
          /\ call.result.val = [address |-> getAddress(call.tokenAddress).val,
                                from |-> "file"]
          /\ call.issued = {}
  /\ ~fileHasEntry /\ ~onChainFails
       => /\ call.result.ok
          /\ call.result.val = [address |-> getAddress(call.tokenAddress).val,
                                from |-> "chain"]
          /\ {"name", "symbol", "decimals"} \subseteq call.issued
  /\ call.result = Err(TokenMetadataNotFound)
       <=> ~fileHasEntry /\ onChainFails

\* the older resolver: the entry stored under the address as given, else the
\* chain, else the throw
thinFileThenChain ==
  LET hit == fileTokenMetadata(call.chainId, call.file,
                               call.tokenAddress) # {}
      fails == \/ ~call.provider
               \/ "fails" \in {call.onChain.name, call.onChain.symbol}
               \/ call.onChain.decimals = "reverts"
  IN  /\ hit => /\ call.result = Ok([address |-> call.tokenAddress,
                                     from |-> "file"])
                /\ call.issued = {}
      /\ ~hit /\ ~fails
           => /\ call.result.ok
              /\ call.result.val.from = "chain"
              /\ call.issued = {"name", "symbol", "decimals"}
      /\ call.result = Err(TokenMetadataNotFound) <=> ~hit /\ fails

\* C20 as stated: for every token (of a well-formed address), a file entry is
\* returned without any on-chain read, otherwise the on-chain metadata is, and
\* the call throws 'Cannot find token metadata for token' exactly when the
\* file has no entry and the on-chain lookup fails.
C20_FileThenChainForEveryToken ==
  /\ call.op = "getTokenMetadata" /\ getAddress(call.tokenAddress).ok
       => fileThenChain
  /\ call.op = "getThinTokenMetadata" => thinFileThenChain

\* C20, amended: the same for every well-formed address that is neither the
\* Real Estate USD token on Ethereum nor a native-token address; those two
\* are answered from data in the code with no file lookup and no on-chain
\* read, and never throw; an address getAddress rejects makes the call throw
\* getAddress's error before any lookup. The older resolver has neither
\* exception and looks the file up under the address as given.
C20_FileThenChainUnlessHardcoded ==
  /\ call.op = "getTokenMetadata"
       => IF ~getAddress(call.tokenAddress).ok
            THEN call.result = Err("INVALID_ARGUMENT") /\ call.issued = {}
          ELSE IF answeredFromCode
            THEN /\ call.result.ok
                 /\ call.result.val.from \in {"hardcoded", "nativeToken"}
                 /\ call.issued = {}
          ELSE fileThenChain
  /\ call.op = "getThinTokenMetadata" => thinFileThenChain

\* C20 witness: a token with no file entry whose name() returns bytes32 is
\* answered from the chain, the fallback read included
C20_Witness ==
  /\ call.op = "getTokenMetadata"
  /\ getAddress(call.tokenAddress).ok
  /\ ~answeredFromCode
  /\ ~fileHasEntry
  /\ call.file # {}
  /\ call.onChain.name = "bytes32"
  /\ call.result.ok
  /\ call.result.val.from = "chain"
  /\ "call" \in call.issued

\* C21: getDeposits asks for the 'supplied' event type whatever its input:
\* the one filter it issues is Supplied, never CollateralSupplied, and what it
\* reads is the Supplied logs of the range; the collateral-supplied logs are
\* read by getCollateralDeposits alone.
C21_DepositsQuerySuppliedOnly ==
  /\ call.op = "getDeposits"
       => /\ call.eventType = "supplied"
          /\ call.filters = {"Supplied"}
          /\ call.fail # "queryFilter"
               => call.eventResults = call.chainLogs["supplied"]
  /\ call.op \in MovementMethods /\ "CollateralSupplied" \in call.filters
       => call.op = "getCollateralDeposits"

\* C21 witness: the range holds supplied and collateral-supplied logs, and
\* getDeposits returns the movements of the two supplied logs only
C21_Witness ==
  /\ call.op = "getDeposits"
  /\ Len(call.chainLogs["supplied"]) = 2
  /\ Len(call.chainLogs["collat-supplied"]) = 1
  /\ call.result.ok
  /\ Len(call.result.val) = 2
  /\ call.result.val[1].movementValueRaw = call.chainLogs["supplied"][1].amount

\* the protocol tokens in the order marketsCreated() lists their markets
tokensInMarketOrder ==
  protocolTokens(resolveMarkets(positionType, markets, NoFailure, <<>>))

\* C22: for a fixed chain state the value getPositions, getProfits and
\* getTotalValueLocked return does not depend on the order in which the reads
\* issued in parallel complete: the tokens a handler answers for, in the
\* order of its result, are those of the markets in the order the chain
\* lists them.
C22_ResultIgnoresCompletionOrder ==
  \A k \in TaskIds :
    tasks[k].pc \in {"balances", "reading"}
      /\ tasks[k].op \in {"getPositions", "getTotalValueLocked"}
      => tasks[k].tokens = tokensInMarketOrder

\* the larger of two numbers
max(a, b) == IF a < b THEN b ELSE a

\* the amount-weighted average of the call's two rates
weightedRate ==
  rayDiv(indexMul(call.p2pRate, call.inP2P)
           + indexMul(call.poolRate, call.onPool),
         call.inP2P + call.onPool)

\* C23 as stated: with a non-zero total the rate is the amount-weighted
\* average of the P2P rate and the pool rate, and lies between the smaller
\* and the larger of the two, up to one unit.
C23_BlendWithinOneUnit ==
  call.op = "blendedRate" /\ call.inP2P + call.onPool # 0
    => /\ call.result = weightedRate
       /\ call.result.ok
       /\ min(call.p2pRate, call.poolRate) - 1 <= call.result.val
       /\ call.result.val <= max(call.p2pRate, call.poolRate) + 1

\* C23, amended: the rate is that weighted average, and lies between the two
\* rates up to RAY / totalAmount + 1 units: each product is rounded to a whole
\* raw unit, and the division by the total scales that error by
\* RAY / totalAmount.
C23_BlendWithinScaledRounding ==
  call.op = "blendedRate" /\ call.inP2P + call.onPool # 0
    => LET slack == RAY \div (call.inP2P + call.onPool) + 1
       IN  /\ call.result = weightedRate
           /\ call.result.ok
           /\ min(call.p2pRate, call.poolRate) - slack <= call.result.val
           /\ call.result.val <= max(call.p2pRate, call.poolRate) + slack

\* C23 witness: two different rates, amounts on both sides, and a rate
\* strictly between the two
C23_Witness ==
  /\ call.op = "blendedRate"
  /\ call.inP2P = 1000
  /\ call.onPool = 500
  /\ call.p2pRate < call.poolRate
  /\ call.result.ok
  /\ call.p2pRate < call.result.val
  /\ call.result.val < call.poolRate

\* C24: a movement query returns one movement per log the event reader
\* returned for its event type, in the reader's order, each with the log's
\* amount as movementValueRaw for the underlying token of the log's market and
\* with the log's block number; stated for logs that name the underlying
\* token of a market the adapter resolved, when no read fails.
C24_OneMovementPerLog ==
  call.op \in MovementMethods /\ call.fail = NoFailure
    /\ metadataCache # {}
    /\ (\A i \in 1..Len(call.eventResults) :
          call.eventResults[i].underlying \in underlyingTokens(resolved))
    => /\ call.result.ok
       /\ Len(call.result.val) = Len(call.eventResults)
       /\ \A i \in 1..Len(call.eventResults) :
            /\ call.result.val[i].movementValueRaw
                 = call.eventResults[i].amount
            /\ call.result.val[i].blockNumber
                 = call.eventResults[i].blockNumber
            /\ call.result.val[i].underlyingToken
                 = call.eventResults[i].underlying

\* C25: getProfits reports exactly the protocol tokens whose position at
\* toBlock is non-zero, once each: a token held at fromBlock and not at
\* toBlock has no entry, and the start value of an entry is the token's
\* balance at fromBlock, 0 for a token not held then.
C25_ProfitsFollowEndPositions ==
  (call.op = "getProfits" /\ call.result.ok /\ DOMAIN call.endBals # {}) =>
    LET r == call.result.val
        endOf(e) == chainBalance(positionType, call.endBals[e.underlyingToken])
        startOf(e) ==
          chainBalance(positionType, call.startBals[e.underlyingToken])
    IN  /\ \A i \in 1..Len(resolved) :
             Cardinality({ j \in 1..Len(r) :
                             r[j].address = resolved[i].protocolToken })
               = IF endOf(resolved[i]) # 0 THEN 1 ELSE 0
        /\ \A j \in 1..Len(r) :
             /\ r[j].address \in Keys(resolved)
             /\ Len(r[j].tokens) = 1
             /\ r[j].tokens[1].calculationData.startPositionValueRaw
                  = startOf(entryOf(r[j].address))

\* C25 witness: of two markets the first is held at fromBlock only and the
\* second at toBlock only: the one entry is the second's, with start value 0
C25_Witness ==
  /\ call.op = "getProfits"
  /\ call.result.ok
  /\ metadataCache # {}
  /\ Len(resolved) = 2
  /\ DOMAIN call.endBals # {}
  /\ chainBalance(positionType,
                  call.startBals[resolved[1].underlyingToken]) # 0
  /\ chainBalance(positionType, call.endBals[resolved[1].underlyingToken]) = 0
  /\ chainBalance(positionType,
                  call.startBals[resolved[2].underlyingToken]) = 0
  /\ Len(call.result.val) = 1
  /\ call.result.val[1].address = resolved[2].protocolToken
  /\ call.result.val[1].tokens[1].calculationData.startPositionValueRaw = 0
  /\ call.result.val[1].tokens[1].calculationData.endPositionValueRaw # 0

\* C26: a borrow adapter takes the borrow events of the range as outflows
\* and the repay events as inflows: withdrawalsRaw is the sum borrowed,
\* depositsRaw the sum repaid, and profitRaw is
\* start + repaid - borrowed - end.
C26_BorrowFlows ==
  (call.op = "getProfits" /\ call.result.ok /\ positionType = "borrow") =>
    \A pe \in profitEntries :
      LET borrowed == amountSum(call.logs[pe[1]]["borrowed"])
          repaid == amountSum(call.logs[pe[1]]["repaid"])
          u == entryOf(pe[1]).underlyingToken
          start == chainBalance(positionType, call.startBals[u])
          end == chainBalance(positionType, call.endBals[u])
      IN  /\ pe[2].calculationData.withdrawalsRaw = borrowed
          /\ pe[2].calculationData.depositsRaw = repaid
          /\ pe[2].profitRaw = start + repaid - borrowed - end

\* C26 witness: a debt grown from 200 to 320 with 100 and 50 borrowed and 30
\* repaid in the range: 200 + 30 - 150 - 320
C26_Witness ==
  /\ call.op = "getProfits"
  /\ call.result.ok
  /\ positionType = "borrow"
  /\ \E pe \in profitEntries :
       /\ Len(call.logs[pe[1]]["borrowed"]) = 2
       /\ Len(call.logs[pe[1]]["repaid"]) = 1
       /\ pe[2].calculationData.startPositionValueRaw = 200
       /\ pe[2].calculationData.endPositionValueRaw = 320
       /\ pe[2].calculationData.withdrawalsRaw = 150
       /\ pe[2].calculationData.depositsRaw = 30
       /\ pe[2].profitRaw = -240

\* C27: a borrow adapter's metadata is the one WETH pair whenever
\* marketsCreated() lists a market, however many it lists, and empty when it
\* lists none; a supply adapter's metadata has one entry per distinct aToken
\* of the markets listed.
C27_EntriesPerAdapterSide ==
  call.op = "buildMetadata" /\ call.result.ok
    => LET meta == call.result.val
           aTokens == { aTokenAddressOf(call.marketsCreated[i]) :
                          i \in DOMAIN call.marketsCreated }
       IN  IF call.positionType = "borrow"
             THEN meta = IF call.marketsCreated = <<>>
                           THEN <<>>
                           ELSE << Entry(WETH_PROTOCOL_TOKEN,
                                         WETH_UNDERLYING_TOKEN) >>
             ELSE /\ Len(meta) = Cardinality(aTokens)
                  /\ { meta[i].protocolToken : i \in 1..Len(meta) } = aTokens

\* C27 witness: three markets listed; the borrow adapter resolves one entry
C27_Witness ==
  /\ call.op = "buildMetadata"
  /\ call.positionType = "borrow"
  /\ Len(call.marketsCreated) = 3
  /\ call.result.ok
  /\ Len(call.result.val) = 1
  /\ call.result.val[1].underlyingToken = WETH_UNDERLYING_TOKEN

\* the call reaches the on-chain lookup
lookedUpOnChain ==
  /\ call.op = "getTokenMetadata"
  /\ getAddress(call.tokenAddress).ok
  /\ ~answeredFromCode
  /\ ~fileHasEntry

\* C28: the bytes32 fallback is read only after a name() or symbol() that
\* failed with BAD_DATA; a read that fails otherwise, decimals() included, is
\* not retried: the lookup yields undefined and getTokenMetadata throws
\* 'Cannot find token metadata for token'; whatever is returned is the whole
\* on-chain metadata.
C28_FallbackOnBadDataOnly ==
  lookedUpOnChain
    => /\ "call" \in call.issued
            <=> \E a \in {call.onChain.name, call.onChain.symbol} :
                  a \in {"bytes32", "badData"}
       /\ "reverts" \in {call.onChain.name, call.onChain.symbol,
                         call.onChain.decimals}
            => call.result = Err(TokenMetadataNotFound)
       /\ call.result.ok
            => /\ call.onChain.name \in {"string", "bytes32"}
               /\ call.onChain.symbol \in {"string", "bytes32"}
               /\ call.onChain.decimals = "number"
               /\ call.result.val.from = "chain"
       /\ ~call.result.ok => call.result = Err(TokenMetadataNotFound)

\* C28 witness: name() reverts while symbol() and decimals() answer: no
\* fallback read, and the call throws
C28_Witness ==
  /\ lookedUpOnChain
  /\ call.onChain = [name |-> "reverts", symbol |-> "string",
                     decimals |-> "number"]
  /\ call.issued = {"name", "symbol", "decimals"}
  /\ call.result = Err(TokenMetadataNotFound)

\* the ids of the chains, or of the protocols, one of whose names is the text
idsNamed(op, text) ==
  IF op \in {"chainFilter", "multiChainFilter"}
    THEN { Chain[i].id : i \in { j \in DOMAIN Chain :
             text \in { numberToString(Chain[j].id),
                        stringToLowerCase(<<Chain[j].key>>),
                        stringToLowerCase(<<Chain[j].name>>) } } }
    ELSE { Protocol[i].id : i \in { j \in DOMAIN Protocol :
             text \in { <<Protocol[j].id>>,
                        stringToLowerCase(<<Protocol[j].key>>) } } }

\* what a filter owes for one non-empty input
filterOfOne(op, s) ==
  IF idsNamed(op, stringToLowerCase(trim(s))) # {}
    THEN Ok(idsNamed(op, stringToLowerCase(trim(s))))
  ELSE IF op \in {"chainFilter", "multiChainFilter"}
    THEN Err(NoChainMatches)
  ELSE Err(NoProtocolMatches)

\* the input of the filter call is absent or the empty string
filterInputMissing == call.filterInput \in {{}, {<<>>}}

\* C29: chainFilter and protocolFilter return undefined exactly when the input
\* is absent or empty; for any other input they return the id one of whose
\* names (id string, lower-cased key, lower-cased chain name) is the trimmed,
\* lower-cased input, and throw when there is none.  The multi filters return
\* the ids of the non-blank comma-separated segments, in order, and throw when
\* one of these segments matches nothing.
C29_FiltersMatchTrimmedLowerCased ==
  /\ call.op \in {"chainFilter", "protocolFilter"}
       => /\ call.result = Ok({}) <=> filterInputMissing
          /\ ~filterInputMissing
               => call.result
                    = filterOfOne(call.op, CHOOSE s \in call.filterInput : TRUE)
  /\ call.op \in {"multiChainFilter", "multiProtocolFilter"}
       => /\ filterInputMissing => call.result = Ok({})
          /\ ~filterInputMissing
               => LET segments ==
                        SelectSeq(split(CHOOSE s \in call.filterInput : TRUE),
                                  LAMBDA x : trim(x) # <<>>)
                      owed == [i \in DOMAIN segments |->
                                 filterOfOne(call.op, segments[i])]
                  IN  IF \E i \in DOMAIN segments : ~owed[i].ok
                        THEN call.result = filterOfOne(call.op, <<"nope">>)
                        ELSE /\ call.result.ok
                             /\ call.result.val
                                  = { [i \in DOMAIN segments |->
                                         CHOOSE v \in owed[i].val : TRUE] }

\* C29 witness: a blank segment is skipped and the other one, padded and in
\* another case, is matched by the chain name
C29_Witness ==
  /\ call.op = "multiChainFilter"
  /\ call.filterInput = {<<" ", ",", "Op">>}
  /\ call.result = Ok({<<10>>})

\* C30: every entry MorphoBasePoolAdapter.buildMetadata and
\* CurveStakingAdapter.buildMetadata build is keyed by the address of its own
\* protocol token; CurveStakingAdapter builds entries only for pools that have
\* a staking token, each with the LP token of such a pool as its single
\* underlying token.
C30_EntriesKeyedByOwnProtocolToken ==
  /\ call.op = "buildMetadata" /\ call.result.ok
       => \A i \in DOMAIN call.result.val :
            call.result.val[i].key = call.result.val[i].protocolToken
  /\ call.op = "CurveStakingAdapter.buildMetadata" /\ call.result.ok
       => \A i \in DOMAIN call.result.val :
            LET e == call.result.val[i]
            IN  /\ e.key = e.protocolToken.address
                /\ \E j \in DOMAIN call.results :
                     /\ call.results[j].found
                     /\ call.results[j].stakingToken # {}
                     /\ e.key \in call.results[j].stakingToken
                                    \cup {call.results[j].protocolToken.address}
                     /\ e.underlyingTokens
                          = <<call.results[j].protocolToken>>

\* C30 witness: of two pools the one without a staking token gets no entry
C30_Witness ==
  /\ call.op = "CurveStakingAdapter.buildMetadata"
  /\ call.revision = "Staking"
  /\ Len(call.results) = 2
  /\ call.results[1] = [found |-> TRUE, protocolToken |-> lpToken("lp1"),
                        stakingToken |-> {}]
  /\ call.results[2] = [found |-> TRUE, protocolToken |-> lpToken("lp2"),
                        stakingToken |-> {"g2"}]
  /\ call.result.ok
  /\ Len(call.result.val) = 1
  /\ call.result.val[1].key = "g2"
  /\ call.result.val[1].underlyingTokens = <<lpToken("lp2")>>

====
